---------------------------- MODULE Spec2Model ----------------------------
(***************************************************************************)
(* f289ctrl: the protocol codec (src/src/proto/codec.rs), the binary       *)
(* record length-probes (src/src/rawmea.rs) and the Device session         *)
(* (src/src/device.rs) over a framed byte stream.                          *)
(*                                                                         *)
(* Bytes are naturals 0..255.  A command is a record [name, arg]; the      *)
(* codec's only state is last_cmd, the inbound buffer is src.              *)
(***************************************************************************)
EXTENDS Integers, Sequences, FiniteSets, TLC

VARIABLES
    last_cmd,     \* ProtocolCodec.last_cmd (NoCmd models None)
    src,          \* the inbound buffer handed to decode (Framed's read buffer)
    wire,         \* bytes the device has written and the host has not read yet
    ret,          \* the last call of decode: its inputs and what it returned
    build,        \* "debug" | "release": whether integer overflow panics
    crashed,      \* a panic has unwound the caller
    pc,           \* position of the Device operation in flight
    op,           \* the Device operation in flight (the command it sends)
    result,       \* what the last finished Device operation returned
    is_readable,  \* Framed read state
    eof,          \* Framed read state
    has_errored,  \* Framed read state
    peer_closed,  \* the device side of the stream is closed
    sent,         \* commands written to the transport by the operation in flight
    taken,        \* decoded items the operation in flight has consumed
    pending,      \* commands written whose response no operation has consumed
    inbox,        \* commands the device has received and not answered yet
    ops_left,     \* operations the caller may still start
    encoded,      \* the command most recently handed to encode
    seen,         \* what has happened on this Device: "abandoned", "transport"
    script,       \* the frames a faked transport was built with, in order
    bulk,         \* the bulk fetch in progress: its loop variables
    conv          \* the last conversion applied on its own: input and output

vars == << last_cmd, src, wire, ret, build, crashed, pc, op, result,
           is_readable, eof, has_errored, peer_closed, sent, taken, pending,
           inbox, ops_left, encoded, seen, script, bulk, conv >>

codecVars == << last_cmd, src, wire, ret, build, crashed, encoded >>
sessionVars == << pc, op, result, is_readable, eof, has_errored, peer_closed,
                  sent, taken, pending, inbox, ops_left, seen, script, bulk,
                  conv >>

---------------------------------------------------------------------------
(* Bytes *)

CR == 13
HASH == 35
PLUS == 43
COMMA == 44
MINUS == 45
ZERO == 48
NINE == 57
ONE == 49
TWO == 50
FIVE == 53
QUOTE == 39
NONASCII == 255

\* codec.rs:25-26, rawmea.rs:7-18
STATUS_LEN == 2
EOL_LEN == 1
BIN_MARKER_LEN == 2
MEA_METADATA_LEN == 34
SAVED_MEA_METADATA_LEN == 38
SAVED_MINMAX_METADATA_LEN == 54
SAVED_RECORDING_METADATA_LEN == 78
READING_LEN == 30
SAVED_RECORD_READINGS_LEN == 26 + READING_LEN + (3 * READING_LEN)

U8_MAX == 255
U16_MAX == 65535
I16_MAX == 32767
\* u64 and usize are wider than the integers of the model checker: every
\* digit string of the model's inputs stays below this ceiling
WIDE_MAX == 10^9 - 1

\* Bounds of the model
MaxReadings == 1
MaxOps == 2

---------------------------------------------------------------------------
(* Sequence helpers *)

Drop(s, n) == IF n >= Len(s) THEN << >> ELSE SubSeq(s, n + 1, Len(s))
Take(s, n) == IF n >= Len(s) THEN s ELSE SubSeq(s, 1, n)
Slice(s, a, b) == IF b < a THEN << >> ELSE SubSeq(s, a, b)
Rep(b, n) == [i \in 1..n |-> b]

RECURSIVE FirstCR(_, _)
\* 1-based index of the first CR of s at index >= i, 0 when there is none
FirstCR(s, i) ==
    IF i > Len(s) THEN 0
    ELSE IF s[i] = CR THEN i
    ELSE FirstCR(s, i + 1)

RECURSIVE SplitAt(_, _, _)
\* str::split(','): the fields of s, cur being the field under construction
SplitAt(s, i, cur) ==
    IF i > Len(s) THEN << cur >>
    ELSE IF s[i] = COMMA THEN << cur >> \o SplitAt(s, i + 1, << >>)
    ELSE SplitAt(s, i + 1, Append(cur, s[i]))

Split(s) == SplitAt(s, 1, << >>)

IsDigit(b) == b >= ZERO /\ b <= NINE

RECURSIVE DigitsValue(_, _, _)
\* the decimal value of the digits s[i..], acc so far; saturates above
\* WIDE_MAX, which is above the range of every type narrower than u64
DigitsValue(s, i, acc) ==
    IF i > Len(s) THEN acc
    ELSE IF acc * 10 + (s[i] - ZERO) > WIDE_MAX THEN WIDE_MAX + 1
    ELSE DigitsValue(s, i + 1, acc * 10 + (s[i] - ZERO))

\* str::from_utf8 from byte i on: one-byte characters and two-byte
\* characters (a lead byte 0xC2..0xDF and a continuation byte 0x80..0xBF);
\* the model's inputs hold no longer characters, and its byte 0xFF is
\* never valid
RECURSIVE Utf8From(_, _)
Utf8From(s, i) ==
    IF i > Len(s) THEN TRUE
    ELSE IF s[i] < 128 THEN Utf8From(s, i + 1)
    ELSE IF /\ s[i] \in 194..223
            /\ i + 1 <= Len(s)
            /\ s[i + 1] \in 128..191
    THEN Utf8From(s, i + 2)
    ELSE FALSE

Utf8Valid(s) == Utf8From(s, 1)

\* the bytes of the character that starts with lead byte b of a valid string
CharLen(b) == IF b < 128 THEN 1 ELSE 2

\* str::chars().count(), and the byte offset behind the first n characters
RECURSIVE CharsFrom(_, _)
CharsFrom(s, i) ==
    IF i > Len(s) THEN 0 ELSE 1 + CharsFrom(s, i + CharLen(s[i]))

RECURSIVE BytesOfChars(_, _, _)
BytesOfChars(s, i, n) ==
    IF n <= 0 \/ i > Len(s) THEN i - 1
    ELSE BytesOfChars(s, i + CharLen(s[i]), n - 1)

\* chars().skip(k).take(n).collect()
SkipTake(s, k, n) ==
    LET from == BytesOfChars(s, 1, k)
    IN  Slice(s, from + 1, BytesOfChars(s, from + 1, n))

\* <integer>::from_str (core::num): optional sign ('-' only for signed
\* types), at least one digit, digits only, value within the type's range
ParseInt(s, signed, lo, hi) ==
    LET neg == signed /\ Len(s) > 0 /\ s[1] = MINUS
        pos == Len(s) > 0 /\ s[1] = PLUS
        digits == IF neg \/ pos THEN Drop(s, 1) ELSE s
        wellformed == /\ Len(digits) > 0
                      /\ \A i \in 1..Len(digits) : IsDigit(digits[i])
        mag == IF wellformed THEN DigitsValue(digits, 1, 0) ELSE 0
        val == IF neg THEN 0 - mag ELSE mag
    IN  IF wellformed /\ val >= lo /\ val <= hi
        THEN [ok |-> TRUE, val |-> val]
        ELSE [ok |-> FALSE, val |-> 0]

---------------------------------------------------------------------------
(* Commands and responses (command.rs, response.rs) *)

Cmd(n, a) == [name |-> n, arg |-> a]
NoCmd == Cmd("None", << >>)

\* Response (response.rs:20-25) and ResponsePayload (response.rs:28-61)
Payload(v, x) == [variant |-> v, value |-> x]
NoPayload == Payload("None", << >>)
Success(p) == [tag |-> "Success", payload |-> p]
SyntaxError == [tag |-> "SyntaxError", payload |-> NoPayload]
ExecutionError == [tag |-> "ExecutionError", payload |-> NoPayload]
NoData == [tag |-> "NoData", payload |-> NoPayload]
NoResp == [tag |-> "Nothing", payload |-> NoPayload]

\* What one call of decode returns: Ok(None), Ok(Some(resp)), Err(why) or a
\* panic, with the buffer and the codec's last_cmd as the call leaves them
Incomplete(cmd, s) ==
    [kind |-> "incomplete", resp |-> NoResp, src |-> s, last_cmd |-> cmd,
     why |-> ""]
\* decode as it would be with last_cmd.take() on a complete frame
Frame_take(cmd, r, s) ==
    [kind |-> "frame", resp |-> r, src |-> s, last_cmd |-> NoCmd,
     why |-> ""]
Frame(cmd, r, s) ==
    [kind |-> "frame", resp |-> r, src |-> s, last_cmd |-> cmd, why |-> ""]
Error(cmd, s, w) ==
    [kind |-> "error", resp |-> NoResp, src |-> s, last_cmd |-> cmd,
     why |-> w]
Panic(cmd, s, w) ==
    [kind |-> "panic", resp |-> NoResp, src |-> s, last_cmd |-> cmd,
     why |-> w]

Some(x) == [some |-> TRUE, val |-> x]
None == [some |-> FALSE, val |-> << >>]

---------------------------------------------------------------------------
(* ASCII payloads *)

\* get_payload as it would be if it searched the CR from the end of the
\* buffer
get_payload_last(s) ==
    LET ps == { i \in (STATUS_LEN + 1)..Len(s) : s[i] = CR }
    IN  IF ps = {} THEN None
        ELSE Some(Slice(s, STATUS_LEN + 1,
                        (CHOOSE i \in ps : \A j \in ps : j <= i) - 1))

\* ProtocolCodec::get_payload: the bytes after the status line up to the
\* first CR found from offset 2 on
get_payload(s) ==
    LET p == FirstCR(s, STATUS_LEN + 1)
    IN  IF p = 0 THEN None ELSE Some(Slice(s, STATUS_LEN + 1, p - 1))

\* split_to as it would be if it took the whole buffer with the line
AfterLine_all(s, payload) == << >>

\* what split_to(2 + payload.len() + 1) leaves in the buffer
AfterLine(s, payload) == Drop(s, STATUS_LEN + Len(payload) + EOL_LEN)

\* Ident::try_from as it would be if it ignored fields after the third
Ident_try_from_lax(value) ==
    LET values == Split(value)
    IN  IF ~Utf8Valid(value) THEN [ok |-> FALSE, val |-> << >>]
        ELSE IF Len(values) >= 3
        THEN [ok |-> TRUE,
              val |-> [model |-> values[1], firmware |-> values[2],
                       serial |-> values[3]]]
        ELSE [ok |-> FALSE, val |-> << >>]

\* Ident::try_from
Ident_try_from(value) ==
    LET values == Split(value)
    IN  IF ~Utf8Valid(value) THEN [ok |-> FALSE, val |-> << >>]
        ELSE IF Len(values) = 3
        THEN [ok |-> TRUE,
              val |-> [model |-> values[1], firmware |-> values[2],
                       serial |-> values[3]]]
        ELSE [ok |-> FALSE, val |-> << >>]

\* MemoryStat::try_from
MemoryStat_try_from(value) ==
    LET values == Split(value)
        n(i) == ParseInt(values[i], FALSE, 0, WIDE_MAX)
    IN  IF ~Utf8Valid(value) THEN [ok |-> FALSE, val |-> << >>]
        ELSE IF Len(values) = 4
        THEN IF n(1).ok /\ n(2).ok /\ n(3).ok /\ n(4).ok
             THEN [ok |-> TRUE,
                   val |-> [recordings |-> n(1).val, min_max |-> n(2).val,
                            peak |-> n(3).val, measurement |-> n(4).val]]
             ELSE [ok |-> FALSE, val |-> << >>]
        ELSE [ok |-> FALSE, val |-> << >>]

\* strip_string: chars().skip(1).take(len - 2), len being the length in
\* bytes; len - 2 underflows for a line shorter than 2 bytes: a panic with
\* overflow checks, a wrap to a count no line reaches without
strip_string(line, b) ==
    IF Len(line) >= 2
    THEN [ok |-> TRUE, val |-> SkipTake(line, 1, Len(line) - 2)]
    ELSE IF b = "debug"
    THEN [ok |-> FALSE, val |-> << >>]
    ELSE [ok |-> TRUE, val |-> SkipTake(line, 1, Len(line))]

\* the code/name pairs of values.chunks_exact(2) after the count entry
MapPairs(values) ==
    [i \in 1..((Len(values) - 1) \div 2) |->
        [id |-> values[2 * i], name |-> values[2 * i + 1]]]

\* the HashMap built by inserting the pairs in order: the last name wins
MapOf(pairs) ==
    LET ids == {ParseInt(pairs[i].id, FALSE, 0, U16_MAX).val :
                    i \in 1..Len(pairs)}
        last(k) == CHOOSE i \in 1..Len(pairs) :
                      /\ ParseInt(pairs[i].id, FALSE, 0, U16_MAX).val = k
                      /\ \A j \in (i + 1)..Len(pairs) :
                            ParseInt(pairs[j].id, FALSE, 0, U16_MAX).val # k
    IN  [k \in ids |-> pairs[last(k)].name]

---------------------------------------------------------------------------
(* Binary records (rawmea.rs) *)

\* u16::from_le_bytes of the two bytes at 0-based offsets off, off + 1
LE16(buf, off) == buf[off + 1] + 256 * buf[off + 2]

HasMarker(value) == value[1] = HASH /\ value[2] = ZERO

\* RawSavedMeasurement::can_parse
RawSavedMeasurement_can_parse(buf) ==
    IF Len(buf) >= BIN_MARKER_LEN + SAVED_MEA_METADATA_LEN
    THEN LET readings == LE16(buf, BIN_MARKER_LEN + SAVED_MEA_METADATA_LEN - 2)
             total == BIN_MARKER_LEN + SAVED_MEA_METADATA_LEN
                        + (readings * READING_LEN)
             idx == FirstCR(buf, total + 1)
         IN  IF Len(buf) > total /\ idx # 0
             THEN Some(total + (idx - total - 1) + EOL_LEN)
             ELSE None
    ELSE None

\* can_parse as it would be when the name's CR is searched from the start of
\* the buffer instead of from the end of the readings
RawSavedMinMaxMeasurement_can_parse_noskip(buf) ==
    IF Len(buf) >= BIN_MARKER_LEN + SAVED_MINMAX_METADATA_LEN
    THEN LET readings ==
                 LE16(buf, BIN_MARKER_LEN + SAVED_MINMAX_METADATA_LEN - 2)
             total == BIN_MARKER_LEN + SAVED_MINMAX_METADATA_LEN
                        + (readings * READING_LEN)
             idx == FirstCR(buf, 1)
         IN  IF Len(buf) > total /\ idx # 0
             THEN Some(idx - 1 + EOL_LEN)
             ELSE None
    ELSE None

\* RawSavedMinMaxMeasurement::can_parse (RawSavedPeakMeasurement is the
\* same type)
RawSavedMinMaxMeasurement_can_parse(buf) ==
    IF Len(buf) >= BIN_MARKER_LEN + SAVED_MINMAX_METADATA_LEN
    THEN LET readings ==
                 LE16(buf, BIN_MARKER_LEN + SAVED_MINMAX_METADATA_LEN - 2)
             total == BIN_MARKER_LEN + SAVED_MINMAX_METADATA_LEN
                        + (readings * READING_LEN)
             idx == FirstCR(buf, total + 1)
         IN  IF Len(buf) > total /\ idx # 0
             THEN Some(total + (idx - total - 1) + EOL_LEN)
             ELSE None
    ELSE None

\* RawSavedRecordingSessionInfo::can_parse
RawSavedRecordingSessionInfo_can_parse(buf) ==
    IF Len(buf) >= BIN_MARKER_LEN + SAVED_RECORDING_METADATA_LEN
    THEN LET readings ==
                 LE16(buf, BIN_MARKER_LEN + SAVED_RECORDING_METADATA_LEN - 2)
             total == BIN_MARKER_LEN + SAVED_RECORDING_METADATA_LEN
                        + (readings * READING_LEN)
             idx == FirstCR(buf, total + 1)
         IN  IF Len(buf) > total /\ idx # 0
             THEN Some(total + (idx - total - 1) + EOL_LEN)
             ELSE None
    ELSE None

\* RawSessionRecordReadings::can_parse: a fixed length of 149 bytes
RawSessionRecordReadings_can_parse(buf) ==
    LET total == BIN_MARKER_LEN + SAVED_RECORD_READINGS_LEN
    IN  IF Len(buf) >= total + EOL_LEN THEN Some(total + EOL_LEN) ELSE None

\* What a record parser returns: Ok(record), Err or a panic.  The record
\* keeps the reading count of its header, the number of 30-byte readings it
\* read, its name and the bytes it was parsed from.
RecOk(cnt, n, name, value) ==
    [kind |-> "ok", cnt |-> cnt, readings |-> n, name |-> name,
     span |-> value]
RecErr(w) ==
    [kind |-> "error", cnt |-> 0, readings |-> 0, name |-> << >>,
     span |-> << >>, why |-> w]
RecPanic(w) ==
    [kind |-> "panic", cnt |-> 0, readings |-> 0, name |-> << >>,
     span |-> << >>, why |-> w]

\* read_saved_name on the bytes left in the cursor
read_saved_name(rest) ==
    LET p == FirstCR(rest, 1)
    IN  IF Len(rest) = 0 THEN [kind |-> "panic", val |-> << >>]
        ELSE IF p = 0 THEN [kind |-> "panic", val |-> << >>]
        ELSE [kind |-> "ok", val |-> Slice(rest, 1, p - 1)]

\* NamedRecord as it would be with the reading count taken from the two
\* bytes before the end of the header
NamedRecord_early(value, meta) ==
    IF Len(value) < BIN_MARKER_LEN + meta THEN RecPanic("assert len")
    ELSE IF ~HasMarker(value) THEN RecErr("no #0 marker")
    ELSE LET cnt == LE16(value, BIN_MARKER_LEN + meta - 4)
             body == BIN_MARKER_LEN + meta + cnt * READING_LEN
             name == read_saved_name(Drop(value, body))
         IN  IF Len(value) < body THEN RecErr("read_exact: eof")
             ELSE IF name.kind = "panic" THEN RecPanic("read_saved_name")
             ELSE RecOk(cnt, cnt, name.val, value)

\* The shape shared by the three named records: the assertion on the
\* length, the marker, a header of meta bytes ending in the reading count,
\* that many readings, the name
NamedRecord(value, meta) ==
    IF Len(value) < BIN_MARKER_LEN + meta THEN RecPanic("assert len")
    ELSE IF ~HasMarker(value) THEN RecErr("no #0 marker")
    ELSE LET cnt == LE16(value, BIN_MARKER_LEN + meta - 2)
             body == BIN_MARKER_LEN + meta + cnt * READING_LEN
             name == read_saved_name(Drop(value, body))
         IN  IF Len(value) < body THEN RecErr("read_exact: eof")
             ELSE IF name.kind = "panic" THEN RecPanic("read_saved_name")
             ELSE RecOk(cnt, cnt, name.val, value)

\* RawSavedMeasurement::try_from
RawSavedMeasurement_try_from(value) ==
    NamedRecord(value, SAVED_MEA_METADATA_LEN)

\* RawSavedMinMaxMeasurement::try_from
RawSavedMinMaxMeasurement_try_from(value) ==
    NamedRecord(value, SAVED_MINMAX_METADATA_LEN)

\* RawSavedRecordingSessionInfo::try_from
RawSavedRecordingSessionInfo_try_from(value) ==
    NamedRecord(value, SAVED_RECORDING_METADATA_LEN)

\* RawMeasurement::try_from: no name; asserts that exactly the readings and
\* one more byte follow the header
RawMeasurement_try_from(value) ==
    IF Len(value) < BIN_MARKER_LEN + MEA_METADATA_LEN
    THEN RecPanic("assert len")
    ELSE IF ~HasMarker(value) THEN RecErr("no #0 marker")
    ELSE LET cnt == LE16(value, BIN_MARKER_LEN + MEA_METADATA_LEN - 2)
             remaining == Len(value) - BIN_MARKER_LEN - MEA_METADATA_LEN
         IN  IF remaining # cnt * READING_LEN + 1
             THEN RecPanic("assert remaining")
             ELSE RecOk(cnt, cnt, << >>, value)

\* RawSessionRecordReadings::try_from: two timestamps, three span readings,
\* sampling, un2, the fixed reading and three codes: 146 bytes after the
\* marker
RawSessionRecordReadings_try_from(value) ==
    IF Len(value) < BIN_MARKER_LEN + SAVED_RECORDING_METADATA_LEN
    THEN RecPanic("assert len")
    ELSE IF ~HasMarker(value) THEN RecErr("no #0 marker")
    ELSE IF Len(value) - BIN_MARKER_LEN < SAVED_RECORD_READINGS_LEN
    THEN RecErr("read: eof")
    ELSE RecOk(3, 4, << >>, value)

---------------------------------------------------------------------------
(* ProtocolCodec::decode, status '0': one operator per shape of match arm *)

\* Set*, Clear, ResetDevice: no payload
DecodeNoPayload(cmd, s) == Frame(cmd, Success(NoPayload), Drop(s, 2))

\* Id: the line is consumed before Ident::try_from is tried
DecodeId(cmd, s) ==
    LET payload == get_payload(s)
        id == Ident_try_from(payload.val)
    IN  IF ~payload.some THEN Incomplete(cmd, s)
        ELSE IF id.ok
        THEN Frame(cmd, Success(Payload("Id", id.val)),
                   AfterLine(s, payload.val))
        ELSE Error(cmd, AfterLine(s, payload.val), "Invalid data for ID")

\* GetMemoryStat: as Id, with MemoryStat::try_from
DecodeMemoryStat(cmd, s) ==
    LET payload == get_payload(s)
        stat == MemoryStat_try_from(payload.val)
    IN  IF ~payload.some THEN Incomplete(cmd, s)
        ELSE IF stat.ok
        THEN Frame(cmd, Success(Payload("MemoryStat", stat.val)),
                   AfterLine(s, payload.val))
        ELSE Error(cmd, AfterLine(s, payload.val), "Invalid data for qsls")

\* QueryMap: the line is consumed, then split at ','; the count and every
\* code must parse; assert_eq!(c, value_map.len()) panics on a mismatch
DecodeQueryMap(cmd, s) ==
    LET payload == get_payload(s)
        rest == AfterLine(s, payload.val)
        values == Split(payload.val)
        c == ParseInt(values[1], FALSE, 0, WIDE_MAX)
        pairs == MapPairs(values)
        badid == \E i \in 1..Len(pairs) :
                    ~ParseInt(pairs[i].id, FALSE, 0, U16_MAX).ok
        value_map == MapOf(pairs)
    IN  IF ~payload.some THEN Incomplete(cmd, s)
        ELSE IF ~Utf8Valid(payload.val) THEN Error(cmd, rest, "utf8")
        ELSE IF ~c.ok THEN Error(cmd, rest, "parse count")
        ELSE IF badid THEN Error(cmd, rest, "parse code")
        ELSE IF c.val # Cardinality(DOMAIN value_map)
        THEN Panic(cmd, rest, "assert_eq count")
        ELSE Frame(cmd, Success(Payload("Map", value_map)), rest)

\* the number arm as it would be with the status line split off before the
\* payload line is known to be complete
DecodeNumber_early(cmd, s, variant, signed, lo, hi) ==
    LET payload == get_payload(s)
        n == ParseInt(payload.val, signed, lo, hi)
    IN  IF ~payload.some THEN Incomplete(cmd, Drop(s, 2))
        ELSE IF ~Utf8Valid(payload.val) THEN Error(cmd, s, "utf8")
        ELSE IF ~n.ok THEN Error(cmd, s, "parse")
        ELSE Frame(cmd, Success(Payload(variant, n.val)),
                   AfterLine(s, payload.val))

\* GetBacklightTimeout, GetDevicePowerOff, GetClock, GetCustomDbm,
\* GetTempOffset, Get*EventThreshold: the line is converted and parsed
\* first and consumed only when both succeed
DecodeNumber(cmd, s, variant, signed, lo, hi) ==
    LET payload == get_payload(s)
        n == ParseInt(payload.val, signed, lo, hi)
    IN  IF ~payload.some THEN Incomplete(cmd, s)
        ELSE IF ~Utf8Valid(payload.val) THEN Error(cmd, s, "utf8")
        ELSE IF ~n.ok THEN Error(cmd, s, "parse")
        ELSE Frame(cmd, Success(Payload(variant, n.val)),
                   AfterLine(s, payload.val))

\* GetOperator, GetCompany, GetSite, GetContact: strip_string(line)
DecodeStripped(cmd, s, variant, b) ==
    LET payload == get_payload(s)
        rest == AfterLine(s, payload.val)
        stripped == strip_string(payload.val, b)
    IN  IF ~payload.some THEN Incomplete(cmd, s)
        ELSE IF ~Utf8Valid(payload.val) THEN Error(cmd, s, "utf8")
        ELSE IF ~stripped.ok THEN Panic(cmd, rest, "subtract with overflow")
        ELSE Frame(cmd, Success(Payload(variant, stripped.val)), rest)

\* GetSaveName: the line as it is
DecodeLine(cmd, s, variant) ==
    LET payload == get_payload(s)
    IN  IF ~payload.some THEN Incomplete(cmd, s)
        ELSE IF ~Utf8Valid(payload.val) THEN Error(cmd, s, "utf8")
        ELSE Frame(cmd, Success(Payload(variant, payload.val)),
                   AfterLine(s, payload.val))

\* "ON"
ON == << 79, 78 >>

\* GetBeeper, GetSmoothing: line.eq("ON")
DecodeOnOff(cmd, s, variant) ==
    LET payload == get_payload(s)
    IN  IF ~payload.some THEN Incomplete(cmd, s)
        ELSE IF ~Utf8Valid(payload.val) THEN Error(cmd, s, "utf8")
        ELSE Frame(cmd, Success(Payload(variant, payload.val = ON)),
                   AfterLine(s, payload.val))

\* GetLanguage, GetDateFormat, GetNumFormat: the line is consumed, then
\* matched against the tokens; any other line is unimplemented!()
DecodeToken(cmd, s, variant, table) ==
    LET payload == get_payload(s)
        rest == AfterLine(s, payload.val)
        hit == {i \in 1..Len(table) : table[i].token = payload.val}
    IN  IF ~payload.some THEN Incomplete(cmd, s)
        ELSE IF ~Utf8Valid(payload.val) THEN Error(cmd, s, "utf8")
        ELSE IF hit = {} THEN Panic(cmd, rest, "unimplemented")
        ELSE Frame(cmd,
                   Success(Payload(variant,
                                   table[CHOOSE i \in hit : TRUE].value)),
                   rest)

\* GetDigitCount, GetDbmRef: parsed first, then consumed, then matched
DecodeNumberToken(cmd, s, variant, hi, table) ==
    LET payload == get_payload(s)
        rest == AfterLine(s, payload.val)
        n == ParseInt(payload.val, FALSE, 0, hi)
        hit == {i \in 1..Len(table) : table[i].number = n.val}
    IN  IF ~payload.some THEN Incomplete(cmd, s)
        ELSE IF ~Utf8Valid(payload.val) THEN Error(cmd, s, "utf8")
        ELSE IF ~n.ok THEN Error(cmd, s, "parse")
        ELSE IF hit = {} THEN Panic(cmd, rest, "unimplemented")
        ELSE Frame(cmd,
                   Success(Payload(variant,
                                   table[CHOOSE i \in hit : TRUE].value)),
                   rest)

\* GetTimeFormat: consumed first, then parsed, then matched
DecodeTimeFormat(cmd, s) ==
    LET payload == get_payload(s)
        rest == AfterLine(s, payload.val)
        v == ParseInt(payload.val, FALSE, 0, U8_MAX)
    IN  IF ~payload.some THEN Incomplete(cmd, s)
        ELSE IF ~Utf8Valid(payload.val) THEN Error(cmd, s, "utf8")
        ELSE IF ~v.ok THEN Error(cmd, rest, "parse")
        ELSE IF v.val = 12
        THEN Frame(cmd, Success(Payload("TimeFormat", "Time12")), rest)
        ELSE IF v.val = 24
        THEN Frame(cmd, Success(Payload("TimeFormat", "Time24")), rest)
        ELSE Panic(cmd, rest, "unimplemented")

\* The tokens the Get decoders match (codec.rs:270-274, 287-296, 309-313,
\* 346-350, 366-369)
LanguageTokens ==
    << [token |-> << 71, 69, 82, 77, 65, 78 >>, value |-> "German"],
       [token |-> << 69, 78, 76, 73, 83, 72 >>, value |-> "English"],
       [token |-> << 83, 80, 65, 78, 73, 83, 72 >>, value |-> "Spanish"],
       [token |-> << 73, 84, 65, 76, 73, 65, 78 >>, value |-> "Italian"],
       [token |-> << 70, 82, 69, 78, 67, 72 >>, value |-> "French"],
       [token |-> << 74, 65, 80, 65, 78, 69, 83, 69 >>, value |-> "Japanese"],
       [token |-> << 67, 72, 73, 78, 69, 83, 69 >>, value |-> "Chinese"] >>
DateFormatTokens ==
    << [token |-> << 77, 77, 95, 68, 68 >>, value |-> "MM_DD"],
       [token |-> << 68, 68, 95, 77, 77 >>, value |-> "DD_MM"] >>
NumFormatTokens ==
    << [token |-> << 67, 79, 77, 77, 65 >>, value |-> "Comma"],
       [token |-> << 80, 79, 73, 78, 84 >>, value |-> "Point"] >>
DigitCountNumbers ==
    << [number |-> 4, value |-> "Digit4"],
       [number |-> 5, value |-> "Digit5"] >>
DbmRefNumbers == << [number |-> 0, value |-> "Custom"] >>

\* How a record parser's outcome becomes decode's, rest being the buffer
\* the arm leaves on a failure after its split_to
FromRecord(cmd, variant, m, onOk, onFail) ==
    IF m.kind = "ok" THEN Frame(cmd, Success(Payload(variant, m)), onOk)
    ELSE IF m.kind = "error" THEN Error(cmd, onFail, m.why)
    ELSE Panic(cmd, onFail, m.why)

\* GetMeasurementBinary: the length is computed in place; the record is
\* parsed from src[2..total] before anything is consumed
DecodeMeasurementBinary(cmd, s) ==
    IF Len(s) >= STATUS_LEN + BIN_MARKER_LEN + MEA_METADATA_LEN
    THEN LET readings == LE16(s, 2 + BIN_MARKER_LEN + MEA_METADATA_LEN - 2)
             total == STATUS_LEN + BIN_MARKER_LEN + MEA_METADATA_LEN
                        + (readings * READING_LEN) + EOL_LEN
         IN  IF Len(s) >= total
             THEN FromRecord(cmd, "MeasurementBinary",
                             RawMeasurement_try_from(Slice(s, 3, total)),
                             Drop(s, total), s)
             ELSE Incomplete(cmd, s)
    ELSE Incomplete(cmd, s)

\* QuerySavedMeasurement
DecodeSavedMeasurement(cmd, s) ==
    LET count == RawSavedMeasurement_can_parse(Drop(s, 2))
        payload == Take(s, 2 + count.val)
    IN  IF count.some
        THEN FromRecord(cmd, "SavedMeasurement",
                        RawSavedMeasurement_try_from(Drop(payload, 2)),
                        Drop(s, 2 + count.val), Drop(s, 2 + count.val))
        ELSE Incomplete(cmd, s)

\* QueryMinMaxSessionInfo, QueryPeakSessionInfo
DecodeSavedMinMax(cmd, s, variant) ==
    LET count == RawSavedMinMaxMeasurement_can_parse(Drop(s, 2))
        payload == Take(s, 2 + count.val)
    IN  IF count.some
        THEN FromRecord(cmd, variant,
                        RawSavedMinMaxMeasurement_try_from(Drop(payload, 2)),
                        Drop(s, 2 + count.val), Drop(s, 2 + count.val))
        ELSE Incomplete(cmd, s)

\* QueryRecordedSessionInfo
DecodeRecordedSessionInfo(cmd, s) ==
    LET count == RawSavedRecordingSessionInfo_can_parse(Drop(s, 2))
        payload == Take(s, 2 + count.val)
    IN  IF count.some
        THEN FromRecord(cmd, "RecordedSessionInfo",
                        RawSavedRecordingSessionInfo_try_from(Drop(payload, 2)),
                        Drop(s, 2 + count.val), Drop(s, 2 + count.val))
        ELSE Incomplete(cmd, s)

\* QuerySessionRecordReadings
DecodeSessionRecordReadings(cmd, s) ==
    LET count == RawSessionRecordReadings_can_parse(Drop(s, 2))
        payload == Take(s, 2 + count.val)
    IN  IF count.some
        THEN FromRecord(cmd, "SessionRecordReading",
                        RawSessionRecordReadings_try_from(Drop(payload, 2)),
                        Drop(s, 2 + count.val), Drop(s, 2 + count.val))
        ELSE Incomplete(cmd, s)

\* the arms of `match self.last_cmd` that answer Success(None)
NoPayloadCommands ==
    { "SetBacklightTimeout", "SetDevicePowerOff", "SetOperator", "SetCompany",
      "SetSite", "SetContact", "SetSaveName", "SetBeeper", "SetSmoothing",
      "Clear", "ResetDevice", "SetCustomDbm", "SetDigitCount",
      "SetAutoHoldEventThreshold", "SetRecordingEventThreshold",
      "SetLanguage", "SetDateFormat", "SetTimeFormat", "SetNumFormat",
      "SetDbmRef", "SetTempOffset", "SetClock" }

\* status '0': `match self.last_cmd`
DecodeSuccess(cmd, s, b) ==
    LET n == cmd.name
    IN  CASE n \in NoPayloadCommands -> DecodeNoPayload(cmd, s)
          [] n = "Id" -> DecodeId(cmd, s)
          [] n = "QueryMap" -> DecodeQueryMap(cmd, s)
          [] n = "GetBacklightTimeout" ->
                DecodeNumber(cmd, s, "BacklightTimeout", FALSE, 0, WIDE_MAX)
          [] n = "GetDevicePowerOff" ->
                DecodeNumber(cmd, s, "DevicePowerOff", FALSE, 0, WIDE_MAX)
          [] n = "GetOperator" -> DecodeStripped(cmd, s, "Operator", b)
          [] n = "GetCompany" -> DecodeStripped(cmd, s, "Company", b)
          [] n = "GetSite" -> DecodeStripped(cmd, s, "Site", b)
          [] n = "GetContact" -> DecodeStripped(cmd, s, "Contact", b)
          [] n = "GetClock" ->
                DecodeNumber(cmd, s, "Clock", FALSE, 0, WIDE_MAX)
          [] n = "GetBeeper" -> DecodeOnOff(cmd, s, "Beeper")
          [] n = "GetSmoothing" -> DecodeOnOff(cmd, s, "Smoothing")
          [] n = "GetCustomDbm" ->
                DecodeNumber(cmd, s, "CustomDbm", FALSE, 0, U16_MAX)
          [] n = "GetDigitCount" ->
                DecodeNumberToken(cmd, s, "DigitCount", U8_MAX,
                                  DigitCountNumbers)
          [] n = "GetLanguage" ->
                DecodeToken(cmd, s, "Language", LanguageTokens)
          [] n = "GetDateFormat" ->
                DecodeToken(cmd, s, "DateFormat", DateFormatTokens)
          [] n = "GetTimeFormat" -> DecodeTimeFormat(cmd, s)
          [] n = "GetNumFormat" ->
                DecodeToken(cmd, s, "NumericFormat", NumFormatTokens)
          [] n = "GetDbmRef" ->
                DecodeNumberToken(cmd, s, "DbmRef", U16_MAX, DbmRefNumbers)
          [] n = "GetTempOffset" ->
                DecodeNumber(cmd, s, "TempOffset", TRUE, 0 - I16_MAX - 1,
                             I16_MAX)
          [] n = "GetAutoHoldEventThreshold" ->
                DecodeNumber(cmd, s, "AutoHoldEventThreshold", FALSE, 0,
                             U8_MAX)
          [] n = "GetRecordingEventThreshold" ->
                DecodeNumber(cmd, s, "RecordingEventThreshold", FALSE, 0,
                             U8_MAX)
          [] n = "GetSaveName" -> DecodeLine(cmd, s, "SaveName")
          [] n = "GetMemoryStat" -> DecodeMemoryStat(cmd, s)
          [] n = "GetMeasurementBinary" -> DecodeMeasurementBinary(cmd, s)
          [] n = "QuerySavedMeasurement" -> DecodeSavedMeasurement(cmd, s)
          [] n = "QueryMinMaxSessionInfo" ->
                DecodeSavedMinMax(cmd, s, "MinMaxSessionInfo")
          [] n = "QueryPeakSessionInfo" ->
                DecodeSavedMinMax(cmd, s, "PeakSessionInfo")
          [] n = "QueryRecordedSessionInfo" ->
                DecodeRecordedSessionInfo(cmd, s)
          [] n = "QuerySessionRecordReadings" ->
                DecodeSessionRecordReadings(cmd, s)
          [] OTHER -> Panic(cmd, s, "No command called")

\* decode as it would be with the arms of status 1 and 2 exchanged
Decode_swapped(cmd, s, b) ==
    IF Len(s) >= 2
    THEN IF s[2] # CR
         THEN Error(cmd, s, "Device response code expected")
         ELSE CASE s[1] = ZERO -> DecodeSuccess(cmd, s, b)
                [] s[1] = ONE -> Frame(cmd, ExecutionError, Drop(s, 2))
                [] s[1] = TWO -> Frame(cmd, SyntaxError, Drop(s, 2))
                [] s[1] = FIVE -> Frame(cmd, NoData, Drop(s, 2))
                [] OTHER -> Error(cmd, s, "Unknown device response code")
    ELSE Incomplete(cmd, s)

\* decode as it would be if it skipped a status line it does not know
Decode_skipping(cmd, s, b) ==
    IF Len(s) >= 2
    THEN IF s[2] # CR
         THEN Error(cmd, s, "Device response code expected")
         ELSE CASE s[1] = ZERO -> DecodeSuccess(cmd, s, b)
                [] s[1] = ONE -> Frame(cmd, SyntaxError, Drop(s, 2))
                [] s[1] = TWO -> Frame(cmd, ExecutionError, Drop(s, 2))
                [] s[1] = FIVE -> Frame(cmd, NoData, Drop(s, 2))
                [] OTHER -> Incomplete(cmd, Drop(s, 2))
    ELSE Incomplete(cmd, s)

\* ProtocolCodec::decode
Decode(cmd, s, b) ==
    IF Len(s) >= 2
    THEN IF s[2] # CR
         THEN Error(cmd, s, "Device response code expected")
         ELSE CASE s[1] = ZERO -> DecodeSuccess(cmd, s, b)
                [] s[1] = ONE -> Frame(cmd, SyntaxError, Drop(s, 2))
                [] s[1] = TWO -> Frame(cmd, ExecutionError, Drop(s, 2))
                [] s[1] = FIVE -> Frame(cmd, NoData, Drop(s, 2))
                [] OTHER -> Error(cmd, s, "Unknown device response code")
    ELSE Incomplete(cmd, s)

\* encode as it would be when it recorded a command only while none is
\* recorded
EncodeLastCmd_keep(old, item) == IF old = NoCmd THEN item ELSE old

\* encode as it would be if it wrote the line and recorded nothing
EncodeLastCmd_forget(old, item) == old

\* ProtocolCodec::encode: the command line is written, then the command is
\* recorded: the value of last_cmd after encode(item)
EncodeLastCmd(old, item) == item

---------------------------------------------------------------------------
(* The device: what it may write in answer to a command *)

AsciiCommands ==
    { "Id", "QueryMap", "GetBacklightTimeout", "GetDevicePowerOff",
      "GetOperator", "GetCompany", "GetSite", "GetContact", "GetClock",
      "GetBeeper", "GetSmoothing", "GetCustomDbm", "GetDigitCount",
      "GetLanguage", "GetDateFormat", "GetTimeFormat", "GetNumFormat",
      "GetDbmRef", "GetTempOffset", "GetAutoHoldEventThreshold",
      "GetRecordingEventThreshold", "GetSaveName", "GetMemoryStat" }

BinaryCommands ==
    { "GetMeasurementBinary", "QuerySavedMeasurement",
      "QueryMinMaxSessionInfo", "QueryPeakSessionInfo",
      "QueryRecordedSessionInfo", "QuerySessionRecordReadings" }

CommandNames == NoPayloadCommands \cup AsciiCommands \cup BinaryCommands

\* every command, each with one value of its parameters
Commands == { Cmd(n, << >>) : n \in CommandNames }

StatusLine(d) == << d, CR >>
AsciiFrame(payload) == << ZERO, CR >> \o payload \o << CR >>

Marker == << HASH, ZERO >>
BadMarker == << HASH, ONE >>

\* a record with a header of meta bytes, cnt readings and a name
BinFrame(meta, cnt, name, fill, marker) ==
    << ZERO, CR >> \o marker \o Rep(fill, meta - 2)
        \o << cnt % 256, cnt \div 256 >> \o Rep(fill, cnt * READING_LEN)
        \o name \o << CR >>

\* the fixed-length record of QuerySessionRecordReadings
SessionFrame(fill, marker) ==
    << ZERO, CR >> \o marker \o Rep(fill, SAVED_RECORD_READINGS_LEN)
        \o << CR >>

\* payload lines: empty, "5", "x", "ON", "A,B,C", "1,0,A", "2,0,A",
\* "0,0,1,1", "'A'", "GERMAN", "MM_DD", "12", "COMMA", "0", "-5", "777",
\* a byte that is not UTF-8, "ENGLISH", "2,0,A,0,B"
AsciiPayloads ==
    { << >>, << 53 >>, << 120 >>, ON, << 65, 44, 66, 44, 67 >>,
      << 49, 44, 48, 44, 65 >>, << 50, 44, 48, 44, 65 >>,
      << 48, 44, 48, 44, 49, 44, 49 >>, << QUOTE, 65, QUOTE >>,
      << 71, 69, 82, 77, 65, 78 >>, << 77, 77, 95, 68, 68 >>,
      << 49, 50 >>, << 67, 79, 77, 77, 65 >>, << 48 >>, << 45, 53 >>,
      << 55, 55, 55 >>, << NONASCII >>,
      << 69, 78, 71, 76, 73, 83, 72 >>,
      << 50, 44, 48, 44, 65, 44, 48, 44, 66 >>,
      << NONASCII, 44, 66, 44, 67 >> }

Fills == { 0, CR }
Names == { << >>, << 65 >> }
Markers == { Marker, BadMarker }

\* bytes that may follow a frame in the same stream: nothing, or "5\r"
Trails == { << >>, StatusLine(FIVE) }

\* status lines, well-formed or not: "0\r" "1\r" "2\r" "5\r" "9\r" "0A"
StatusReplies ==
    { StatusLine(ZERO), StatusLine(ONE), StatusLine(TWO), StatusLine(FIVE),
      StatusLine(NINE), << ZERO, 65 >>, << ONE, CR, ZERO, CR >> }

MetaOf(n) ==
    CASE n = "GetMeasurementBinary" -> MEA_METADATA_LEN
      [] n = "QuerySavedMeasurement" -> SAVED_MEA_METADATA_LEN
      [] n = "QueryMinMaxSessionInfo" -> SAVED_MINMAX_METADATA_LEN
      [] n = "QueryPeakSessionInfo" -> SAVED_MINMAX_METADATA_LEN
      [] n = "QueryRecordedSessionInfo" -> SAVED_RECORDING_METADATA_LEN

\* the frames of the layout a binary command asks for
BinaryFrames(n) ==
    IF n = "QuerySessionRecordReadings"
    THEN { SessionFrame(f, m) : f \in Fills, m \in Markers }
    ELSE IF n = "GetMeasurementBinary"
    THEN { BinFrame(MetaOf(n), c, << >>, f, m) :
             c \in 0..MaxReadings, f \in Fills, m \in Markers }
    ELSE UNION { { BinFrame(MetaOf(n), c, nm, f, m) :
                     c \in 0..MaxReadings, f \in Fills, m \in Markers } :
                 nm \in Names }

\* what the device may write after command cmd
Replies(cmd) ==
    StatusReplies \cup
    IF cmd.name \in AsciiCommands
    THEN { AsciiFrame(p) \o t : p \in AsciiPayloads, t \in Trails }
    ELSE IF cmd.name \in BinaryCommands
    THEN { f \o t : f \in BinaryFrames(cmd.name), t \in Trails }
            \cup { AsciiFrame(<< 53 >>) }
    ELSE { }

---------------------------------------------------------------------------
(* The codec driven directly: encode, bytes arriving, decode *)

NoCall ==
    [called |-> FALSE, cmd |-> NoCmd, before |-> << >>,
     out |-> Incomplete(NoCmd, << >>)]

Builds == { "debug", "release" }

\* what a Device operation returns: nothing yet, Ok(value) or a ProtoError
NoResult == [kind |-> "none", value |-> << >>, response |-> NoResp]
Ok(v, r) == [kind |-> "ok", value |-> v, response |-> r]
Err(k, r) == [kind |-> k, value |-> << >>, response |-> r]

\* no bulk fetch has been called; no conversion has been applied
NoBulk == [state |-> "off"]
NoConv == [fn |-> "none"]

SessionIdle ==
    /\ pc = "idle"
    /\ op = NoCmd
    /\ result = NoResult
    /\ is_readable = FALSE
    /\ eof = FALSE
    /\ has_errored = FALSE
    /\ peer_closed = FALSE
    /\ sent = 0
    /\ taken = 0
    /\ pending = 0
    /\ inbox = << >>
    /\ seen = { }
    /\ script = << >>
    /\ bulk = NoBulk
    /\ conv = NoConv

\* ProtocolCodec::default(): no command recorded, nothing buffered
InitCodec ==
    /\ last_cmd = NoCmd
    /\ src = << >>
    /\ wire = << >>
    /\ ret = NoCall
    /\ build \in Builds
    /\ crashed = FALSE
    /\ encoded = NoCmd
    /\ SessionIdle
    /\ ops_left = 0

\* encoder.encode(c, dst)
CodecEncode(c) ==
    /\ ~crashed
    /\ src = << >>
    /\ wire = << >>
    /\ last_cmd' = EncodeLastCmd(last_cmd, c)
    /\ encoded' = c
    /\ ret' = NoCall
    /\ UNCHANGED << src, wire, build, crashed >>
    /\ UNCHANGED sessionVars

\* the device writes a reply
CodecReply(f) ==
    /\ ~crashed
    /\ src = << >>
    /\ wire = << >>
    /\ wire' = f
    /\ ret' = NoCall
    /\ UNCHANGED << last_cmd, src, build, crashed, encoded >>
    /\ UNCHANGED sessionVars

\* the next k bytes of the stream are appended to the buffer
CodecReceive(k) ==
    /\ ~crashed
    /\ src' = src \o Take(wire, k)
    /\ wire' = Drop(wire, k)
    /\ ret' = NoCall
    /\ UNCHANGED << last_cmd, build, crashed, encoded >>
    /\ UNCHANGED sessionVars

\* decoder.decode(&mut src)
CodecDecode ==
    /\ ~crashed
    /\ \E d \in { Decode(last_cmd, src, build) } :
           /\ ret' = [called |-> TRUE, cmd |-> last_cmd, before |-> src,
                      out |-> d]
           /\ src' = d.src
           /\ last_cmd' = d.last_cmd
           /\ crashed' = (d.kind = "panic")
    /\ UNCHANGED << wire, build, encoded >>
    /\ UNCHANGED sessionVars

NextCodec ==
    \/ \E c \in Commands : CodecEncode(c)
    \/ \E f \in Replies(last_cmd) : CodecReply(f)
    \/ \E k \in 1..Len(wire) : CodecReceive(k)
    \/ CodecDecode

SpecCodec == InitCodec /\ [][NextCodec]_vars

---------------------------------------------------------------------------
(* The Device session: one operation at a time over the framed stream *)

\* the operations of the session, by the command each sends: ident,
\* backlight, set_backlight, live_measurement, saved_measurement
SessionOps ==
    { Cmd(n, << >>) :
        n \in { "Id", "GetBacklightTimeout", "SetBacklightTimeout",
                "GetMeasurementBinary", "QuerySavedMeasurement" } }

\* the payload variant the operation's first match arm accepts
Expects(n) ==
    CASE n = "Id" -> "Id"
      [] n = "GetBacklightTimeout" -> "BacklightTimeout"
      [] n = "SetBacklightTimeout" -> "None"
      [] n = "GetMeasurementBinary" -> "MeasurementBinary"
      [] n = "QuerySavedMeasurement" -> "SavedMeasurement"
      [] n = "QueryMap" -> "Map"
      [] n = "GetMemoryStat" -> "MemoryStat"
      [] n = "QueryMinMaxSessionInfo" -> "MinMaxSessionInfo"
      [] n = "QueryPeakSessionInfo" -> "PeakSessionInfo"
      [] n = "QueryRecordedSessionInfo" -> "RecordedSessionInfo"
      [] n = "QuerySessionRecordReadings" -> "SessionRecordReading"
      [] n = "GetOperator" -> "Operator"
      [] n = "GetCompany" -> "Company"
      [] n = "GetSite" -> "Site"
      [] n = "GetContact" -> "Contact"

\* what the device may write in answer to a command of the session
SessionReplies(n) ==
    { StatusLine(ONE), StatusLine(TWO), StatusLine(FIVE), StatusLine(NINE) }
    \cup
    CASE n = "Id" -> { AsciiFrame(<< 65, 44, 66, 44, 67 >>) }
      [] n = "GetBacklightTimeout" -> { AsciiFrame(<< FIVE >>) }
      [] n = "SetBacklightTimeout" -> { StatusLine(ZERO) }
      [] n = "GetMeasurementBinary" ->
            { BinFrame(MEA_METADATA_LEN, 0, << >>, 0, Marker) }
      [] n = "QuerySavedMeasurement" ->
            { BinFrame(SAVED_MEA_METADATA_LEN, 0, << 65 >>, 0, Marker) }

\* impl From<Response> for ProtoError as it would be with NoData taken for
\* a closed connection
ProtoError_from_abort(r) ==
    CASE r.tag = "SyntaxError" -> Err("SyntaxError", NoResp)
      [] r.tag = "ExecutionError" -> Err("ExecutionError", NoResp)
      [] r.tag = "Success" -> Err("Unexpected", r)
      [] r.tag = "NoData" -> Err("Abort", NoResp)

\* impl From<Response> for ProtoError as it would be with one error kind for
\* both rejections
ProtoError_from_merged(r) ==
    CASE r.tag = "SyntaxError" -> Err("SyntaxError", NoResp)
      [] r.tag = "ExecutionError" -> Err("SyntaxError", NoResp)
      [] r.tag = "Success" -> Err("Unexpected", r)
      [] r.tag = "NoData" -> Err("Unexpected", r)

\* impl From<Response> for ProtoError
ProtoError_from(r) ==
    CASE r.tag = "SyntaxError" -> Err("SyntaxError", NoResp)
      [] r.tag = "ExecutionError" -> Err("ExecutionError", NoResp)
      [] r.tag = "Success" -> Err("Unexpected", r)
      [] r.tag = "NoData" -> Err("Unexpected", r)

\* the match as it would be with a retry after a SyntaxError
Device_match_retry(c, r) ==
    IF r.tag = "Success" /\ r.payload.variant = Expects(c.name)
    THEN [pc |-> "idle", result |-> Ok(r.payload.value, r)]
    ELSE IF c.name = "GetMeasurementBinary" /\ r.tag = "NoData"
    THEN [pc |-> "idle", result |-> Ok(<< >>, r)]
    ELSE IF r.tag = "SyntaxError"
    THEN [pc |-> "send", result |-> NoResult]
    ELSE [pc |-> "idle", result |-> ProtoError_from(r)]

\* the match as it would be without live_measurement's NoData arm
Device_match_strict(c, r) ==
    IF r.tag = "Success" /\ r.payload.variant = Expects(c.name)
    THEN [pc |-> "idle", result |-> Ok(r.payload.value, r)]
    ELSE [pc |-> "idle", result |-> ProtoError_from(r)]

\* the match as it would be if every operation had live_measurement's arm
\* for NoData
Device_match_lenient(c, r) ==
    IF r.tag = "Success" /\ r.payload.variant = Expects(c.name)
    THEN [pc |-> "idle", result |-> Ok(r.payload.value, r)]
    ELSE IF r.tag = "NoData"
    THEN [pc |-> "idle", result |-> Ok(<< >>, r)]
    ELSE [pc |-> "idle", result |-> ProtoError_from(r)]

\* `match self.stream.next().await` on Some(Ok(r)): the operation returns
\* the payload, Ok(None) for live_measurement on NoData, or r.into()
Device_match(c, r) ==
    IF r.tag = "Success" /\ r.payload.variant = Expects(c.name)
    THEN [pc |-> "idle", result |-> Ok(r.payload.value, r)]
    ELSE IF c.name = "GetMeasurementBinary" /\ r.tag = "NoData"
    THEN [pc |-> "idle", result |-> Ok(<< >>, r)]
    ELSE [pc |-> "idle", result |-> ProtoError_from(r)]

\* decode_eof as it would be if bytes left without a frame were no error
decode_eof_quiet(cmd, s, b) == Decode(cmd, s, b)

\* Decoder::decode_eof, which ProtocolCodec does not override: decode, and
\* an error when decode wants more bytes while the buffer is not empty
BytesRemaining == "bytes remaining on stream"
decode_eof(cmd, s, b) ==
    LET d == Decode(cmd, s, b)
    IN  IF d.kind = "incomplete" /\ d.src # << >>
        THEN Error(cmd, d.src, BytesRemaining)
        ELSE d

\* the sizes of one read of the transport: the status line alone, or all
\* that has arrived
ReadSizes(w) == { k \in 1..Len(w) : k = STATUS_LEN \/ k = Len(w) }

\* Device::new: a fresh codec and Framed read state, nothing sent (no
\* operation of the session reaches strip_string, the one place where the
\* build matters)
Init ==
    /\ last_cmd = NoCmd
    /\ src = << >>
    /\ wire = << >>
    /\ ret = NoCall
    /\ build = "debug"
    /\ crashed = FALSE
    /\ encoded = NoCmd
    /\ SessionIdle
    /\ ops_left = MaxOps

\* the caller calls an operation of the Device
OpStart(c) ==
    /\ ~crashed
    /\ pc = "idle"
    /\ ops_left > 0
    /\ ops_left' = ops_left - 1
    /\ pc' = "send"
    /\ op' = c
    /\ result' = NoResult
    /\ sent' = 0
    /\ taken' = 0
    /\ ret' = NoCall
    /\ UNCHANGED << last_cmd, src, wire, build, crashed, encoded >>
    /\ UNCHANGED << is_readable, eof, has_errored, peer_closed, pending,
                    inbox, seen, script, bulk, conv >>

\* self.stream.send(cmd).await: encode, then the line goes to the device
OpSend ==
    /\ ~crashed
    /\ pc = "send"
    /\ last_cmd' = EncodeLastCmd(last_cmd, op)
    /\ encoded' = op
    /\ sent' = sent + 1
    /\ pending' = pending + 1
    /\ inbox' = IF peer_closed THEN inbox ELSE Append(inbox, op.name)
    /\ pc' = "next"
    /\ UNCHANGED << src, wire, ret, build, crashed >>
    /\ UNCHANGED << op, result, is_readable, eof, has_errored, peer_closed,
                    taken, ops_left, seen, script, bulk, conv >>

\* the caller drops the operation's future while it is suspended in
\* self.stream.next().await, which is in the transport's read; the Device
\* and its stream stay as they are
Cancel ==
    /\ ~crashed
    /\ pc = "next"
    /\ ~has_errored
    /\ ~is_readable
    /\ pc' = "idle"
    /\ result' = Err("cancelled", NoResp)
    /\ seen' = seen \cup { "abandoned" }
    /\ UNCHANGED codecVars
    /\ UNCHANGED << op, is_readable, eof, has_errored, peer_closed, sent,
                    taken, pending, inbox, ops_left, script, bulk, conv >>

\* the operation returns on Some(Err(ioerr)) or None
OpFails(k) ==
    /\ pc' = "idle"
    /\ result' = Err(k, NoResp)
    /\ seen' = IF k = "Io" THEN seen \cup { "transport" } ELSE seen
    /\ UNCHANGED << op, sent, taken, pending >>

\* the operation gets Some(Ok(r))
OpTakes(r) ==
    /\ pc' = Device_match(op, r).pc
    /\ result' = Device_match(op, r).result
    /\ taken' = taken + 1
    /\ pending' = pending - 1
    /\ UNCHANGED << op, sent, seen >>

\* Framed::poll_next after an error: the stream yields None once
PollErrored ==
    /\ ~crashed
    /\ pc = "next"
    /\ has_errored
    /\ is_readable' = FALSE
    /\ has_errored' = FALSE
    /\ OpFails("Abort")
    /\ UNCHANGED codecVars
    /\ UNCHANGED << eof, peer_closed, inbox, ops_left, script, bulk, conv >>

\* Framed::poll_next with is_readable, before end of stream: decode
PollDecode ==
    /\ ~crashed
    /\ pc = "next"
    /\ ~has_errored
    /\ is_readable
    /\ ~eof
    /\ \E d \in { Decode(last_cmd, src, build) } :
           /\ ret' = [called |-> TRUE, cmd |-> last_cmd, before |-> src,
                      out |-> d]
           /\ src' = d.src
           /\ last_cmd' = d.last_cmd
           /\ crashed' = (d.kind = "panic")
           /\ CASE d.kind = "frame" ->
                     /\ OpTakes(d.resp)
                     /\ UNCHANGED << is_readable, has_errored >>
                [] d.kind = "error" ->
                     /\ has_errored' = TRUE
                     /\ OpFails("Io")
                     /\ UNCHANGED is_readable
                [] d.kind = "incomplete" ->
                     /\ is_readable' = FALSE
                     /\ UNCHANGED << pc, op, result, sent, taken, pending,
                                     has_errored, seen >>
                [] d.kind = "panic" ->
                     UNCHANGED << pc, op, result, sent, taken, pending,
                                  is_readable, has_errored, seen >>
    /\ UNCHANGED << wire, build, encoded >>
    /\ UNCHANGED << eof, peer_closed, inbox, ops_left, script, bulk, conv >>

\* Framed::poll_next with is_readable at end of stream: decode_eof
PollDecodeEof ==
    /\ ~crashed
    /\ pc = "next"
    /\ ~has_errored
    /\ is_readable
    /\ eof
    /\ \E d \in { decode_eof(last_cmd, src, build) } :
           /\ ret' = [called |-> TRUE, cmd |-> last_cmd, before |-> src,
                      out |-> d]
           /\ src' = d.src
           /\ last_cmd' = d.last_cmd
           /\ crashed' = (d.kind = "panic")
           /\ CASE d.kind = "frame" ->
                     /\ OpTakes(d.resp)
                     /\ UNCHANGED << is_readable, has_errored >>
                [] d.kind = "error" ->
                     /\ has_errored' = TRUE
                     /\ OpFails("Io")
                     /\ UNCHANGED is_readable
                [] d.kind = "incomplete" ->
                     /\ is_readable' = FALSE
                     /\ OpFails("Abort")
                     /\ UNCHANGED has_errored
                [] d.kind = "panic" ->
                     UNCHANGED << pc, op, result, sent, taken, pending,
                                  is_readable, has_errored, seen >>
    /\ UNCHANGED << wire, build, encoded >>
    /\ UNCHANGED << eof, peer_closed, inbox, ops_left, script, bulk, conv >>

\* Framed::poll_next without is_readable: the transport hands over the next
\* k bytes
PollRead(k) ==
    /\ ~crashed
    /\ pc = "next"
    /\ ~has_errored
    /\ ~is_readable
    /\ src' = src \o Take(wire, k)
    /\ wire' = Drop(wire, k)
    /\ eof' = FALSE
    /\ is_readable' = TRUE
    /\ UNCHANGED << last_cmd, ret, build, crashed, encoded >>
    /\ UNCHANGED << pc, op, result, has_errored, peer_closed, sent, taken,
                    pending, inbox, ops_left, seen, script, bulk, conv >>

\* Framed::poll_next without is_readable: the transport reports the end of
\* the stream (a read of 0 bytes); a second such read yields None
PollReadEnd ==
    /\ ~crashed
    /\ pc = "next"
    /\ ~has_errored
    /\ ~is_readable
    /\ wire = << >>
    /\ peer_closed
    /\ IF eof
       THEN /\ OpFails("Abort")
            /\ UNCHANGED << eof, is_readable >>
       ELSE /\ eof' = TRUE
            /\ is_readable' = TRUE
            /\ UNCHANGED << pc, op, result, sent, taken, pending, seen >>
    /\ UNCHANGED codecVars
    /\ UNCHANGED << has_errored, peer_closed, inbox, ops_left, script, bulk,
                    conv >>

\* the device answers the oldest command it has not answered yet
DeviceReply(f) ==
    /\ ~crashed
    /\ ~peer_closed
    /\ inbox # << >>
    /\ wire' = wire \o f
    /\ inbox' = Tail(inbox)
    /\ UNCHANGED << last_cmd, src, ret, build, crashed, encoded >>
    /\ UNCHANGED << pc, op, result, is_readable, eof, has_errored,
                    peer_closed, sent, taken, pending, ops_left, seen,
                    script, bulk, conv >>

\* the device side of the stream closes
PeerClose ==
    /\ ~crashed
    /\ ~peer_closed
    /\ peer_closed' = TRUE
    /\ inbox' = << >>
    /\ UNCHANGED codecVars
    /\ UNCHANGED << pc, op, result, is_readable, eof, has_errored, sent,
                    taken, pending, ops_left, seen, script, bulk, conv >>

Next ==
    \/ \E c \in SessionOps : OpStart(c)
    \/ OpSend
    \/ Cancel
    \/ PollErrored
    \/ PollDecode
    \/ PollDecodeEof
    \/ \E k \in ReadSizes(wire) : PollRead(k)
    \/ PollReadEnd
    \/ \E f \in (IF inbox = << >> THEN { }
                ELSE SessionReplies(Head(inbox))) : DeviceReply(f)
    \/ PeerClose

Spec == Init /\ [][Next]_vars

---------------------------------------------------------------------------
(* Device::new_faked: the session over a FakeBuffer that holds every reply
   before the first operation is called (the tests of device.rs) *)

\* frames a test may put into the buffer
MaxFrames == 2

\* the operations the faked sessions call: ident, and the query_map step
\* of value_maps
FakedOps == { Cmd(n, << >>) : n \in { "Id", "QueryMap" } }

\* what a test may put into the buffer as the answer to a command
FakedReplies(n) ==
    { StatusLine(ONE), StatusLine(FIVE) }
    \cup
    CASE n = "Id" ->
            { AsciiFrame(<< 65, 44, 66, 44, 67 >>), AsciiFrame(<< 65 >>) }
      [] n = "QueryMap" -> { AsciiFrame(<< 49, 44, 48, 44, 65 >>) }

FakedFrames ==
    UNION { { [name |-> c.name, bytes |-> f] : f \in FakedReplies(c.name) } :
              c \in FakedOps }

Scripts == UNION { [1..n -> FakedFrames] : n \in 0..MaxFrames }

\* the bytes of the frames from the i-th on, back to back
RECURSIVE BytesFrom(_, _)
BytesFrom(frames, i) ==
    IF i > Len(frames) THEN << >>
    ELSE frames[i].bytes \o BytesFrom(frames, i + 1)

\* Device::new_faked(response_buf): the buffer holds the frames; once it is
\* drained every read returns 0 bytes, which Framed takes for the end of
\* the stream
InitFaked ==
    /\ script \in Scripts
    /\ last_cmd = NoCmd
    /\ src = << >>
    /\ wire = BytesFrom(script, 1)
    /\ ret = NoCall
    /\ build = "debug"
    /\ crashed = FALSE
    /\ encoded = NoCmd
    /\ pc = "idle"
    /\ op = NoCmd
    /\ result = NoResult
    /\ is_readable = FALSE
    /\ eof = FALSE
    /\ has_errored = FALSE
    /\ peer_closed = TRUE
    /\ sent = 0
    /\ taken = 0
    /\ pending = 0
    /\ inbox = << >>
    /\ seen = { }
    /\ ops_left = Len(script) + 1
    /\ bulk = NoBulk
    /\ conv = NoConv

\* operations the test has called so far
Called == Len(script) + 1 - ops_left

\* the test calls the operation it has prepared the next frame for, and
\* one more operation at the end
OpStartFaked(c) ==
    /\ Called < Len(script) => c.name = script[Called + 1].name
    /\ OpStart(c)

NextFaked ==
    \/ \E c \in FakedOps : OpStartFaked(c)
    \/ OpSend
    \/ PollErrored
    \/ PollDecode
    \/ PollDecodeEof
    \/ \E k \in 1..Len(wire) : PollRead(k)
    \/ PollReadEnd

SpecFaked == InitFaked /\ [][NextFaked]_vars

---------------------------------------------------------------------------
(* The bulk fetches: saved_measurements_all, saved_minmax_all,
   saved_peak_all, saved_recordings_all, session_record_reading_all_cb *)

\* the largest item count the device reports or the caller asks for
MaxItems == 2

SavedKinds == { "measurements", "minmax", "peak", "recordings" }

\* the indexed query each fetch sends for item i
Query(kind, i) ==
    CASE kind = "measurements" -> Cmd("QuerySavedMeasurement", << i >>)
      [] kind = "minmax" -> Cmd("QueryMinMaxSessionInfo", << i >>)
      [] kind = "peak" -> Cmd("QueryPeakSessionInfo", << i >>)
      [] kind = "recordings" -> Cmd("QueryRecordedSessionInfo", << i >>)
      [] kind = "readings" -> Cmd("QuerySessionRecordReadings", << 0, i >>)

\* the fetches as they would be if all took the count of recordings
StatField_first(kind, stats) == stats.recordings

\* the field of MemoryStat each fetch takes its item count from
StatField(kind, stats) ==
    CASE kind = "measurements" -> stats.measurement
      [] kind = "minmax" -> stats.min_max
      [] kind = "peak" -> stats.peak
      [] kind = "recordings" -> stats.recordings

\* what the callback may do with its arguments; it returns nothing
CallbackEffects == { "nothing", "shows progress" }

\* the loop as it would be if the callback could end it
AfterItem_heeding(b, m, e) ==
    LET v == Append(b.v, m)
        calls == IF b.kind = "readings"
                 THEN Append(b.calls, << Len(b.v), b.n >>)
                 ELSE b.calls
        fx == IF b.kind = "readings" THEN Append(b.effects, e)
              ELSE b.effects
    IN  IF Len(v) = b.n \/ e = "shows progress"
        THEN [b EXCEPT !.state = "done", !.v = v, !.calls = calls,
                       !.effects = fx, !.result = Ok(v, NoResp)]
        ELSE [b EXCEPT !.v = v, !.calls = calls, !.effects = fx,
                       !.cmd = Query(b.kind, Len(v))]

\* the body of the loop after item i has come back as m: callback(i, n)
\* in the readings fetch, v.push(m), then the next index or Ok(v)
AfterItem(b, m, e) ==
    LET v == Append(b.v, m)
        calls == IF b.kind = "readings"
                 THEN Append(b.calls, << Len(b.v), b.n >>)
                 ELSE b.calls
        fx == IF b.kind = "readings" THEN Append(b.effects, e)
              ELSE b.effects
    IN  IF Len(v) = b.n
        THEN [b EXCEPT !.state = "done", !.v = v, !.calls = calls,
                       !.effects = fx, !.result = Ok(v, NoResp)]
        ELSE [b EXCEPT !.v = v, !.calls = calls, !.effects = fx,
                       !.cmd = Query(b.kind, Len(v))]

\* the fetch as it would be if a failed query ended it with the items
\* fetched so far
AfterErr_partial(b, r) ==
    [b EXCEPT !.state = "done", !.result = Ok(b.v, NoResp)]

\* `?` on a call that returned Err(r): the fetch returns Err(r) at once and
\* the list v is dropped
AfterErr(b, r) == [b EXCEPT !.state = "done", !.result = r]

\* the fetch when memory_statistics has returned stats: an empty list for
\* a count of 0, else the loop starts at index 0
AfterStat(b, stats) ==
    LET n == StatField(b.kind, stats)
    IN  IF n = 0
        THEN [b EXCEPT !.state = "done", !.n = n, !.stats = stats,
                       !.result = Ok(<< >>, NoResp)]
        ELSE [b EXCEPT !.state = "items", !.n = n, !.stats = stats,
                       !.cmd = Query(b.kind, 0)]

NoStats == [recordings |-> 0, min_max |-> 0, peak |-> 0, measurement |-> 0]

\* the digit of a count below 10
Digit(n) == ZERO + n

\* the four counts of a qsls answer: recordings, min_max, peak, measurement
StatTuples ==
    { << 0, 1, MaxItems, 1 >>, << 1, 0, 1, MaxItems >>,
      << MaxItems, 1, 0, 0 >>, << 1, MaxItems, 1, 0 >> }

StatFrame(t) ==
    AsciiFrame(<< Digit(t[1]), COMMA, Digit(t[2]), COMMA, Digit(t[3]),
                  COMMA, Digit(t[4]) >>)

\* the frame the device answers the indexed query c with: the record's
\* name, or every byte of a readings record, tells the index
ItemFrame(c) ==
    IF c.name = "QuerySessionRecordReadings"
    THEN SessionFrame(c.arg[2], Marker)
    ELSE BinFrame(MetaOf(c.name), 0, << 65 + c.arg[1] >>, 0, Marker)

\* what the device may answer to a command of a bulk fetch
BulkReplies(c) ==
    { StatusLine(ONE) } \cup
    IF c.name = "GetMemoryStat"
    THEN { StatFrame(t) : t \in StatTuples }
    ELSE { ItemFrame(c) }

\* all_memory is not running
NoMem == [on |-> FALSE]

\* all_memory as it would be if it fetched peak before min/max
KindOrder_peak_first == << "measurements", "peak", "minmax", "recordings" >>

\* the order in which all_memory calls the four fetches, and the Memory
\* variant it wraps the records of each in
KindOrder == << "measurements", "minmax", "peak", "recordings" >>
MemoryOf(kind) ==
    CASE kind = "measurements" -> "Measurement"
      [] kind = "minmax" -> "MinMaxMeasurement"
      [] kind = "peak" -> "PeakMeasurement"
      [] kind = "recordings" -> "Recording"

InitBulk ==
    /\ last_cmd = NoCmd
    /\ src = << >>
    /\ wire = << >>
    /\ ret = NoCall
    /\ build = "debug"
    /\ crashed = FALSE
    /\ encoded = NoCmd
    /\ SessionIdle
    /\ ops_left = 0

\* the caller calls one of the saved_*_all fetches: memory_statistics
\* comes first
SavedAllStart(kind) ==
    /\ pc = "idle"
    /\ bulk.state = "off"
    /\ bulk' = [state |-> "stat", kind |-> kind, n |-> 0, stats |-> NoStats,
                v |-> << >>, calls |-> << >>, effects |-> << >>,
                cmd |-> Cmd("GetMemoryStat", << >>), result |-> NoResult,
                log |-> << >>, mem |-> NoMem]
    /\ ops_left' = 1
    /\ UNCHANGED codecVars
    /\ UNCHANGED << pc, op, result, is_readable, eof, has_errored,
                    peer_closed, sent, taken, pending, inbox, seen, script,
                    conv >>

\* the caller calls session_record_reading_all_cb(0, n, callback)
ReadingsAllStart(n) ==
    /\ pc = "idle"
    /\ bulk.state = "off"
    /\ bulk' = [state |-> IF n = 0 THEN "done" ELSE "items",
                kind |-> "readings", n |-> n, stats |-> NoStats,
                v |-> << >>, calls |-> << >>, effects |-> << >>,
                cmd |-> Query("readings", 0),
                result |-> IF n = 0 THEN Ok(<< >>, NoResp) ELSE NoResult,
                log |-> << >>, mem |-> NoMem]
    /\ ops_left' = IF n = 0 THEN 0 ELSE 1
    /\ UNCHANGED codecVars
    /\ UNCHANGED << pc, op, result, is_readable, eof, has_errored,
                    peer_closed, sent, taken, pending, inbox, seen, script,
                    conv >>

\* the fetch calls memory_statistics or the indexed query of the next item
BulkCall ==
    /\ bulk.state \in { "stat", "items" }
    /\ OpStart(bulk.cmd)

\* the call has returned: `?` ends the fetch with the call's error;
\* otherwise the count is taken from the statistics, or the item is
\* handed to the loop body
BulkStep ==
    /\ ~crashed
    /\ bulk.state \in { "stat", "items" }
    /\ pc = "idle"
    /\ ops_left = 0
    /\ result.kind # "none"
    /\ \E e \in CallbackEffects :
         \E nb \in { IF result.kind # "ok"
                     THEN AfterErr(bulk, result)
                     ELSE IF bulk.state = "stat"
                     THEN AfterStat(bulk, result.value)
                     ELSE AfterItem(bulk, result.value, e) } :
            bulk' = [nb EXCEPT !.log = Append(@, bulk.cmd)]
    /\ ops_left' = IF bulk'.state = "done" THEN 0 ELSE 1
    /\ UNCHANGED codecVars
    /\ UNCHANGED << pc, op, result, is_readable, eof, has_errored,
                    peer_closed, sent, taken, pending, inbox, seen, script,
                    conv >>

\* the caller calls all_memory(maps): saved_measurements_all comes first
AllMemoryStart ==
    /\ pc = "idle"
    /\ bulk.state = "off"
    /\ bulk' = [state |-> "stat", kind |-> KindOrder[1], n |-> 0,
                stats |-> NoStats, v |-> << >>, calls |-> << >>,
                effects |-> << >>, cmd |-> Cmd("GetMemoryStat", << >>),
                result |-> NoResult, log |-> << >>,
                mem |-> [on |-> TRUE, phase |-> 1, groups |-> << >>,
                         result |-> NoResult]]
    /\ ops_left' = 1
    /\ UNCHANGED codecVars
    /\ UNCHANGED << pc, op, result, is_readable, eof, has_errored,
                    peer_closed, sent, taken, pending, inbox, seen, script,
                    conv >>

\* one of the four fetches of all_memory has returned: `?` ends all_memory
\* with its error; otherwise its records are kept as one group and the next
\* fetch is called, or after the fourth the groups are chained into the list
AllMemoryStep ==
    /\ bulk.state = "done"
    /\ bulk.mem.on
    /\ bulk.mem.result.kind = "none"
    /\ \E groups \in { Append(bulk.mem.groups,
                              [j \in 1..Len(bulk.v) |->
                                  [memory |-> MemoryOf(bulk.kind),
                                   record |-> bulk.v[j]]]) } :
        bulk' =
            IF bulk.result.kind # "ok"
            THEN [bulk EXCEPT !.mem.result = bulk.result]
            ELSE IF bulk.mem.phase = Len(KindOrder)
            THEN [bulk EXCEPT
                    !.mem.groups = groups,
                    !.mem.result = Ok(groups[1] \o groups[2] \o groups[3]
                                          \o groups[4], NoResp)]
            ELSE [bulk EXCEPT
                    !.state = "stat", !.kind = KindOrder[bulk.mem.phase + 1],
                    !.n = 0, !.stats = NoStats, !.v = << >>,
                    !.cmd = Cmd("GetMemoryStat", << >>),
                    !.result = NoResult,
                    !.mem.phase = bulk.mem.phase + 1,
                    !.mem.groups = groups]
    /\ ops_left' = IF bulk'.state = "done" THEN 0 ELSE 1
    /\ UNCHANGED codecVars
    /\ UNCHANGED << pc, op, result, is_readable, eof, has_errored,
                    peer_closed, sent, taken, pending, inbox, seen, script,
                    conv >>

NextBulk ==
    \/ \E kind \in SavedKinds : SavedAllStart(kind)
    \/ \E n \in 0..MaxItems : ReadingsAllStart(n)
    \/ BulkCall
    \/ OpSend
    \/ PollDecode
    \/ \E k \in ReadSizes(wire) : PollRead(k)
    \/ \E f \in (IF inbox = << >> THEN { } ELSE BulkReplies(op)) :
          DeviceReply(f)
    \/ BulkStep
    \/ AllMemoryStart
    \/ AllMemoryStep

SpecBulk == InitBulk /\ [][NextBulk]_vars

---------------------------------------------------------------------------
(* Conversions applied on their own: encode; a text is the sequence of the
   UTF-8 bytes of a String *)

\* Display of an unsigned number: its decimal digits
RECURSIVE Decimal(_)
Decimal(n) ==
    IF n < 10 THEN << Digit(n) >>
    ELSE Decimal(n \div 10) \o << Digit(n % 10) >>

\* enclose_string: format!("'{}'", s)
enclose_string(t) == << QUOTE >> \o t \o << QUOTE >>

\* the line encode writes before the final "\r", for the commands
\* id, qemap, mp ablto, qmp ablto, mpq operator, mpq company, mpq site,
\* mpq contact, savname,
\* qsls, qddb, qsmr, qsrr
EncodeLine(item) ==
    LET n == item.name
        a == item.arg
    IN  CASE n = "Id" -> << 105, 100 >>
          [] n = "QueryMap" -> << 113, 101, 109, 97, 112, 32 >> \o a[1]
          [] n = "SetBacklightTimeout" ->
                << 109, 112, 32, 97, 98, 108, 116, 111, 44 >>
                    \o Decimal(a[1])
          [] n = "GetBacklightTimeout" ->
                << 113, 109, 112, 32, 97, 98, 108, 116, 111 >>
          [] n = "SetOperator" ->
                << 109, 112, 113, 32, 111, 112, 101, 114, 97, 116, 111, 114,
                   44 >> \o enclose_string(a[1])
          [] n = "SetCompany" ->
                << 109, 112, 113, 32, 99, 111, 109, 112, 97, 110, 121, 44 >>
                    \o enclose_string(a[1])
          [] n = "SetSite" ->
                << 109, 112, 113, 32, 115, 105, 116, 101, 44 >>
                    \o enclose_string(a[1])
          [] n = "SetContact" ->
                << 109, 112, 113, 32, 99, 111, 110, 116, 97, 99, 116, 44 >>
                    \o a[1]
          [] n = "SetSaveName" ->
                << 115, 97, 118, 110, 97, 109, 101, 32 >> \o Decimal(a[1])
                    \o << COMMA >> \o enclose_string(a[2])
          [] n = "GetMemoryStat" -> << 113, 115, 108, 115 >>
          [] n = "GetMeasurementBinary" -> << 113, 100, 100, 98 >>
          [] n = "QuerySavedMeasurement" ->
                << 113, 115, 109, 114, 32 >> \o Decimal(a[1])
          [] n = "QuerySessionRecordReadings" ->
                << 113, 115, 114, 114, 32 >> \o Decimal(a[1])
                    \o << COMMA >> \o Decimal(a[2])

\* ProtocolCodec::encode: the bytes appended to dst
Encode(item) == EncodeLine(item) \o << CR >>

\* parameter values: texts "", "A", "A B", "A\rB", "\u{fc}" (two bytes of
\* UTF-8), "'"; numbers
Texts ==
    { << >>, << 65 >>, << 65, 32, 66 >>, << 65, CR, 66 >>, << 195, 188 >>,
      << QUOTE >> }
Numbers == { 0, 7, 10, 900 }

\* commands with their parameters
EncodeInputs ==
    { Cmd(n, << >>) : n \in { "Id", "GetBacklightTimeout", "GetMemoryStat",
                              "GetMeasurementBinary" } }
    \cup { Cmd(n, << t >>) : n \in { "QueryMap", "SetOperator", "SetCompany",
                                     "SetSite", "SetContact" },
                             t \in Texts }
    \cup { Cmd(n, << k >>) : n \in { "SetBacklightTimeout",
                                     "QuerySavedMeasurement" },
                             k \in Numbers }
    \cup { Cmd("SetSaveName", << k, t >>) : k \in Numbers, t \in Texts }
    \cup { Cmd("QuerySessionRecordReadings", << k, j >>) :
            k \in Numbers, j \in Numbers }

InitConv ==
    /\ last_cmd = NoCmd
    /\ src = << >>
    /\ wire = << >>
    /\ ret = NoCall
    /\ build = "debug"
    /\ crashed = FALSE
    /\ encoded = NoCmd
    /\ SessionIdle
    /\ ops_left = 0

\* what no conversion touches
ConvFrame ==
    /\ UNCHANGED << src, wire, ret, build, crashed >>
    /\ UNCHANGED << pc, op, result, is_readable, eof, has_errored,
                    peer_closed, sent, taken, pending, inbox, ops_left,
                    seen, script, bulk >>

\* encoder.encode(item, &mut dst) on an empty dst
ConvEncode(item) ==
    /\ conv' = [fn |-> "encode", arg |-> item, out |-> Encode(item)]
    /\ last_cmd' = EncodeLastCmd(last_cmd, item)
    /\ encoded' = item
    /\ ConvFrame

\* A double is kept as the 8 bytes of its big-endian IEEE-754 form.
\* read_double: the 8 bytes read, (0,3), (1,2), (4,7), (5,6) swapped, taken
\* as a big-endian double
read_double(b) == << b[4], b[3], b[2], b[1], b[8], b[7], b[6], b[5] >>

\* cur.read_f64::<LittleEndian>(): the 8 bytes read, last byte first
read_f64_LittleEndian(b) ==
    << b[8], b[7], b[6], b[5], b[4], b[3], b[2], b[1] >>

\* RawMeasurement::try_from, its two floating fields: four u16, range_max,
\* two 16-bit fields, ts
RawMeasurement_floats(value) ==
    LET cur == Drop(value, BIN_MARKER_LEN)
    IN  [range_max |-> read_double(Slice(cur, 9, 16)),
         ts        |-> read_f64_LittleEndian(Slice(cur, 21, 28))]

\* RawReading::try_from, its two floating fields: reading_id, value, six
\* 16-bit fields, ts
RawReading_floats(buf) ==
    [value |-> read_double(Slice(buf, 3, 10)),
     ts    |-> read_double(Slice(buf, 23, 30))]

\* 8 bytes as the meter sends them: 0.0, 1.0, 0.5, infinity, a NaN, the
\* smallest subnormal, 1700000000.66 (a clock time), and a pattern that reads
\* the same in both byte orders
DoubleBytes ==
    { << 0, 0, 0, 0, 0, 0, 0, 0 >>, << 0, 0, 240, 63, 0, 0, 0, 0 >>,
      << 0, 0, 224, 63, 0, 0, 0, 0 >>, << 0, 0, 240, 127, 0, 0, 0, 0 >>,
      << 0, 0, 248, 127, 0, 0, 0, 0 >>, << 0, 0, 0, 0, 1, 0, 0, 0 >>,
      << 11, 94, 217, 65, 0, 0, 128, 42 >>,
      << 0, 0, 240, 63, 0, 0, 240, 63 >> }

\* the payload of a live measurement with one reading, every floating field
\* holding the bytes d and every other field zero
MeasurementWith(d) ==
    Marker \o Rep(0, 8) \o d \o Rep(0, 4) \o d \o Rep(0, 4) \o << 1, 0 >>
        \o Rep(0, 2) \o d \o Rep(0, 12) \o d

\* RawMeasurement::try_from(value), the floating fields it fills in
ConvFloats(d) ==
    /\ \E value \in { MeasurementWith(d) } :
        conv' = [fn  |-> "floats", arg |-> d,
                 out |-> [measurement |-> RawMeasurement_floats(value),
                          reading     |-> RawReading_floats(
                              Drop(value, BIN_MARKER_LEN
                                            + MEA_METADATA_LEN))]]
    /\ UNCHANGED << last_cmd, encoded >>
    /\ ConvFrame

\* The value maps of one meter, as the comments of measurement.rs record
\* them: "primfunction" (a part), "state", "attribute", "mode"
ValueMaps ==
    [primfunction |-> (0 :> "LIMBO") @@ (1 :> "V_AC") @@ (3 :> "V_DC")
                        @@ (27 :> "OHMS"),
     state |-> (0 :> "INACTIVE") @@ (1 :> "INVALID") @@ (2 :> "NORMAL")
                 @@ (3 :> "BLANK") @@ (4 :> "DISCHARGE") @@ (5 :> "OL")
                 @@ (6 :> "OL_MINUS") @@ (7 :> "OPEN_TC"),
     attribute |-> (0 :> "NONE") @@ (1 :> "OPEN_CIRCUIT")
                     @@ (2 :> "SHORT_CIRCUIT") @@ (3 :> "GLITCH_CIRCUIT")
                     @@ (4 :> "GOOD_DIODE") @@ (5 :> "LO_OHMS")
                     @@ (6 :> "NEGATIVE_EDGE") @@ (7 :> "POSITIVE_EDGE")
                     @@ (8 :> "HIGH_CURRENT"),
     mode |-> (0 :> "NONE") @@ (1 :> "AUTO_HOLD") @@ (2 :> "AUTO_SAVE")
                @@ (4 :> "HOLD") @@ (8 :> "LOW_PASS_FILTER")
                @@ (16 :> "MIN_MAX_AVG") @@ (32 :> "RECORD") @@ (64 :> "REL")
                @@ (128 :> "REL_PERCENT") @@ (256 :> "CALIBRATION")]

\* the names each enumeration knows
PrimaryFunctionNames ==
    { "V_DC", "TEMPERATURE", "A_DC", "V_DC_OVER_AC", "V_AC_OVER_DC",
      "CAL_ACDC_AC_COMP", "CAL_V_AC_LOZ", "LIMBO", "V_AC_LOZ",
      "OHMS_LOW", "CAL_RMS", "CAL_TEMPERATURE", "CAPACITANCE", "OHMS",
      "MA_AC", "V_AC_PLUS_DC", "MV_AC_PLUS_DC", "MA_DC_OVER_AC",
      "CAL_AD_GAIN_X2", "CAL_DC_AMP_X5", "MV_DC_OVER_AC", "A_AC",
      "CONTINUITY", "MV_AC", "MV_DC", "A_DC_OVER_AC", "CONDUCTANCE",
      "V_AC", "CAL_AD_GAIN_X1", "CAL_DC_AMP_X10", "UA_AC_PLUS_DC",
      "UA_DC_OVER_AC", "CAL_NINV_AC_AMP", "CAL_ISRC_500NA", "UA_DC",
      "UA_AC_OVER_DC", "A_AC_OVER_DC", "CAL_FILT_AMP", "MA_AC_OVER_DC",
      "MA_AC_PLUS_DC", "CAL_MV_AC_PEAK", "UA_AC", "MV_AC_OVER_DC",
      "CAL_V_DC_LOZ", "MA_DC", "DIODE_TEST", "CAL_COMP_TRIM_MV_DC",
      "CAL_V_AC_PEAK", "A_AC_PLUS_DC" }
StateNames ==
    { "NORMAL", "DISCHARGE", "OL_MINUS", "INVALID", "BLANK", "INACTIVE",
      "OL", "OPEN_TC" }
AttributeNames ==
    { "LO_OHMS", "SHORT_CIRCUIT", "OPEN_CIRCUIT", "GOOD_DIODE",
      "HIGH_CURRENT", "NONE", "NEGATIVE_EDGE", "GLITCH_CIRCUIT",
      "POSITIVE_EDGE" }
ModeNames ==
    { "LOW_PASS_FILTER", "AUTO_SAVE", "CALIBRATION", "NONE", "HOLD",
      "AUTO_HOLD", "MIN_MAX_AVG", "RECORD", "REL", "REL_PERCENT" }

\* a & b on unsigned numbers
RECURSIVE BitAnd(_, _)
BitAnd(a, b) ==
    IF a = 0 \/ b = 0 THEN 0
    ELSE (a % 2) * (b % 2) + 2 * BitAnd(a \div 2, b \div 2)

\* match maps[..].get(&code): a known name, a name the enumeration does not
\* know (panic), no entry (panic)
Translated(map, known, code) ==
    IF code \notin DOMAIN map
    THEN [kind |-> "panic", why |-> "Unknown index"]
    ELSE IF map[code] \notin known
    THEN [kind |-> "panic", why |-> "Unknown name"]
    ELSE [kind |-> "ok", val |-> map[code]]

PrimaryFunction_from(code, maps) ==
    Translated(maps.primfunction, PrimaryFunctionNames, code)
State_from(code, maps) == Translated(maps.state, StateNames, code)

\* Attribute::try_from: "NONE" is Err(()), which the caller's .ok() turns
\* into no attribute
Attribute_try_from(code, maps) ==
    LET t == Translated(maps.attribute, AttributeNames, code)
    IN  IF t.kind = "ok" /\ t.val = "NONE" THEN [kind |-> "err"] ELSE t

\* Modes::from: every entry of the map whose flag is contained in the code
Modes_from(code, maps) ==
    LET set == { f \in DOMAIN maps.mode : BitAnd(code, f) = f }
    IN  IF \E f \in set : maps.mode[f] \notin ModeNames
        THEN [kind |-> "panic", why |-> "Unknown name"]
        ELSE [kind |-> "ok", val |-> { maps.mode[f] : f \in set }]

\* the code fields translated here and the codes tried
Fields == { "primfunction", "state", "attribute", "mode" }
Codes == { 0, 1, 2, 3, 7, 9, 27, 512 }

TranslatedField(field, code, maps) ==
    CASE field = "primfunction" -> PrimaryFunction_from(code, maps)
      [] field = "state" -> State_from(code, maps)
      [] field = "attribute" -> Attribute_try_from(code, maps)
      [] field = "mode" -> Modes_from(code, maps)

\* (code, maps).into() or .try_into() for one field of a record
ConvTranslate(field, code) ==
    /\ conv' = [fn  |-> "translate", arg |-> << field, code >>,
                out |-> TranslatedField(field, code, ValueMaps)]
    /\ UNCHANGED << last_cmd, encoded >>
    /\ ConvFrame

\* IEEE-754 on the 8 big-endian bytes of a double: the 11 bits of exponent
\* and whether the 52 bits of fraction are all zero
Exponent(f) == (f[1] % 128) * 16 + f[2] \div 16
FractionZero(f) == f[2] % 16 = 0 /\ \A i \in 3..8 : f[i] = 0

\* f64::is_normal: neither zero, subnormal, infinite nor NaN
is_normal(f) == Exponent(f) \notin { 0, 2047 }

\* `ts as isize != 0`: the cast truncates toward zero, saturates, and takes
\* NaN to 0, so it is non-zero exactly for |ts| >= 1, infinities included
as_isize_nonzero(f) ==
    /\ Exponent(f) >= 1023
    /\ ~(Exponent(f) = 2047 /\ ~FractionZero(f))

\* Measurement::from, the ts field: Some(time) or None
Measurement_ts(ts) ==
    IF as_isize_nonzero(ts) /\ is_normal(ts)
    THEN [kind |-> "some", val |-> ts]
    ELSE [kind |-> "none"]

\* the doubles tried: what the meter's 8 bytes stand for
Doubles == { read_double(d) : d \in DoubleBytes }

\* Measurement::from((raw, maps)) for a raw measurement with this ts
ConvTimestamp(ts) ==
    /\ conv' = [fn |-> "timestamp", arg |-> ts, out |-> Measurement_ts(ts)]
    /\ UNCHANGED << last_cmd, encoded >>
    /\ ConvFrame

\* cur.read_i16::<LittleEndian>() at a byte offset
LEI16(buf, off) ==
    IF LE16(buf, off) > I16_MAX THEN LE16(buf, off) - (U16_MAX + 1)
    ELSE LE16(buf, off)

\* the 30 bytes of a reading with these decimals (as an i16) and state code,
\* every other field zero
ReadingWith(decimals, state) ==
    Rep(0, 14) \o << decimals % 256, (decimals \div 256) % 256 >>
        \o Rep(0, 2) \o << state % 256, state \div 256 >> \o Rep(0, 10)

\* RawReading::try_from then Reading::from: decimals is copied as read, the
\* state code goes through the "state" map
Reading_from(buf, maps) ==
    LET st == State_from(LE16(buf, 18), maps)
    IN  IF st.kind = "panic" THEN st
        ELSE [kind |-> "ok", decimals |-> LEI16(buf, 14), state |-> st.val]

\* Display for Reading: the Normal arm asserts that decimals is not negative
Reading_fmt(r) ==
    IF r.state = "NORMAL" /\ r.decimals < 0 THEN "panic" ELSE "ok"

DecimalCounts == { 0, 2, -1, -300 }
StateCodes == { 0, 1, 2, 5, 9 }

\* a reading parsed, translated and, when that gave a Reading, formatted
ConvReading(decimals, state) ==
    /\ \E r \in { Reading_from(ReadingWith(decimals, state), ValueMaps) } :
        conv' = [fn  |-> "reading", arg |-> << decimals, state >>,
                 out |-> r,
                 fmt |-> IF r.kind = "ok" THEN Reading_fmt(r) ELSE "none"]
    /\ UNCHANGED << last_cmd, encoded >>
    /\ ConvFrame

\* The repository holds a second Device, proto/device.rs, the one main.rs
\* imports.  Its operations match as those of device.rs do, except company(),
\* whose first arm is ResponsePayload::Operator.
proto_Expects(n) == IF n = "GetCompany" THEN "Operator" ELSE Expects(n)

\* the match of an operation of proto/device.rs
proto_Device_match(c, r) ==
    IF r.tag = "Success" /\ r.payload.variant = proto_Expects(c.name)
    THEN [pc |-> "idle", result |-> Ok(r.payload.value, r)]
    ELSE [pc |-> "idle", result |-> ProtoError_from(r)]

Devices == { "device.rs", "proto/device.rs" }

\* operator(), company(), site(), contact(), with answers A, 'A', and the
\* status line 1
TextOps ==
    { Cmd(n, << >>) :
        n \in { "GetOperator", "GetCompany", "GetSite", "GetContact" } }
TextReplies ==
    { AsciiFrame(<< 65 >>), AsciiFrame(<< QUOTE, 65, QUOTE >>),
      StatusLine(ONE) }

\* one operation of one of the two Devices run to its end on a fresh
\* connection: the command is encoded, the whole answer arrives, decode
\* returns a frame and the operation matches it
ConvOperation(dev, c, f) ==
    /\ \E d \in { Decode(c, f, build) } :
        /\ d.kind = "frame"
        /\ conv' = [fn  |-> "operation", arg |-> << dev, c >>,
                    resp |-> d.resp,
                    out |-> IF dev = "device.rs"
                            THEN Device_match(c, d.resp).result
                            ELSE proto_Device_match(c, d.resp).result]
    /\ last_cmd' = EncodeLastCmd(last_cmd, c)
    /\ encoded' = c
    /\ ConvFrame

\* The parameter tokens encode writes for the Set commands of an
\* enumeration, each with the Get command that reads the setting back: "4",
\* "5"; "GERMAN", "ENGLISH", ...; "DD_MM", "MM_DD"; "12", "24"; "POINT",
\* "COMMA"; "4", "8", ..., "1000", "0"
SetTokens ==
    { [set |-> "SetDigitCount", get |-> "GetDigitCount", value |-> "Digit4",
       token |-> << 52 >>],
      [set |-> "SetDigitCount", get |-> "GetDigitCount", value |-> "Digit5",
       token |-> << 53 >>],
      [set |-> "SetLanguage", get |-> "GetLanguage", value |-> "German",
       token |-> << 71, 69, 82, 77, 65, 78 >>],
      [set |-> "SetLanguage", get |-> "GetLanguage", value |-> "English",
       token |-> << 69, 78, 71, 76, 73, 83, 72 >>],
      [set |-> "SetLanguage", get |-> "GetLanguage", value |-> "French",
       token |-> << 70, 82, 69, 78, 67, 72 >>],
      [set |-> "SetLanguage", get |-> "GetLanguage", value |-> "Italian",
       token |-> << 73, 84, 65, 76, 73, 65, 78 >>],
      [set |-> "SetLanguage", get |-> "GetLanguage", value |-> "Spanish",
       token |-> << 83, 80, 65, 78, 73, 83, 72 >>],
      [set |-> "SetLanguage", get |-> "GetLanguage", value |-> "Japanese",
       token |-> << 74, 65, 80, 65, 78, 69, 83, 69 >>],
      [set |-> "SetLanguage", get |-> "GetLanguage", value |-> "Chinese",
       token |-> << 67, 72, 73, 78, 69, 83, 69 >>],
      [set |-> "SetDateFormat", get |-> "GetDateFormat", value |-> "DD_MM",
       token |-> << 68, 68, 95, 77, 77 >>],
      [set |-> "SetDateFormat", get |-> "GetDateFormat", value |-> "MM_DD",
       token |-> << 77, 77, 95, 68, 68 >>],
      [set |-> "SetTimeFormat", get |-> "GetTimeFormat", value |-> "Time12",
       token |-> << 49, 50 >>],
      [set |-> "SetTimeFormat", get |-> "GetTimeFormat", value |-> "Time24",
       token |-> << 50, 52 >>],
      [set |-> "SetNumFormat", get |-> "GetNumFormat", value |-> "Point",
       token |-> << 80, 79, 73, 78, 84 >>],
      [set |-> "SetNumFormat", get |-> "GetNumFormat", value |-> "Comma",
       token |-> << 67, 79, 77, 77, 65 >>],
      [set |-> "SetDbmRef", get |-> "GetDbmRef", value |-> "Ref4",
       token |-> << 52 >>],
      [set |-> "SetDbmRef", get |-> "GetDbmRef", value |-> "Ref8",
       token |-> << 56 >>],
      [set |-> "SetDbmRef", get |-> "GetDbmRef", value |-> "Ref16",
       token |-> << 49, 54 >>],
      [set |-> "SetDbmRef", get |-> "GetDbmRef", value |-> "Ref25",
       token |-> << 50, 53 >>],
      [set |-> "SetDbmRef", get |-> "GetDbmRef", value |-> "Ref32",
       token |-> << 51, 50 >>],
      [set |-> "SetDbmRef", get |-> "GetDbmRef", value |-> "Ref50",
       token |-> << 53, 48 >>],
      [set |-> "SetDbmRef", get |-> "GetDbmRef", value |-> "Ref75",
       token |-> << 55, 53 >>],
      [set |-> "SetDbmRef", get |-> "GetDbmRef", value |-> "Ref600",
       token |-> << 54, 48, 48 >>],
      [set |-> "SetDbmRef", get |-> "GetDbmRef", value |-> "Ref1000",
       token |-> << 49, 48, 48, 48 >>],
      [set |-> "SetDbmRef", get |-> "GetDbmRef", value |-> "Custom",
       token |-> << 48 >>] }

\* Set(v) is encoded, the meter answers the matching Get with the token it
\* was given, and decode reads the answer
ConvRoundTrip(e) ==
    /\ conv' = [fn  |-> "roundtrip", arg |-> e,
                out |-> Decode(Cmd(e.get, << >>), AsciiFrame(e.token),
                               build)]
    /\ last_cmd' = EncodeLastCmd(last_cmd, Cmd(e.get, << >>))
    /\ encoded' = Cmd(e.get, << >>)
    /\ ConvFrame

\* answers to the owner-info queries, in quotes: A, "A B", the empty
\* string, a single quote, "\u{fc}" and "A\u{fc}"; without quotes: AB,
\* "\u{fc}", the one-character line A and the empty line
StripLines ==
    { enclose_string(<< 65 >>), enclose_string(<< 65, 32, 66 >>),
      enclose_string(<< >>), enclose_string(<< QUOTE >>),
      enclose_string(<< 195, 188 >>), enclose_string(<< 65, 195, 188 >>),
      << 65, 66 >>, << 195, 188 >>, << 65 >>, << >> }

\* the meter answers an owner-info query with status 0 and line, and decode
\* reads the answer, in a build with or without overflow checks
ConvStrip(c, line, b) ==
    /\ conv' = [fn  |-> "strip", arg |-> [cmd |-> c, line |-> line,
                                          build |-> b],
                out |-> Decode(c, AsciiFrame(line), b)]
    /\ last_cmd' = EncodeLastCmd(last_cmd, c)
    /\ encoded' = c
    /\ ConvFrame

NextConv ==
    \/ \E item \in EncodeInputs : ConvEncode(item)
    \/ \E d \in DoubleBytes : ConvFloats(d)
    \/ \E f \in Fields, c \in Codes : ConvTranslate(f, c)
    \/ \E ts \in Doubles : ConvTimestamp(ts)
    \/ \E k \in DecimalCounts, c \in StateCodes : ConvReading(k, c)
    \/ \E dev \in Devices, c \in TextOps, f \in TextReplies :
        ConvOperation(dev, c, f)
    \/ \E e \in SetTokens : ConvRoundTrip(e)
    \/ \E c \in TextOps, line \in StripLines, b \in Builds :
        ConvStrip(c, line, b)

SpecConv == InitConv /\ [][NextConv]_vars

---------------------------------------------------------------------------
(* Properties of decode, stated on the last call (ret) *)

IsPrefix(a, b) == Len(a) <= Len(b) /\ a = Take(b, Len(a))

\* the status line the call found at the head of the buffer
StatusOf(call) ==
    IF Len(call.before) >= 2 /\ call.before[2] = CR
    THEN call.before[1]
    ELSE -1

\* the commands named Set*, Clear and ResetDevice (command.rs)
SetClearReset ==
    { "SetBacklightTimeout", "SetDevicePowerOff", "SetOperator", "SetCompany",
      "SetSite", "SetContact", "SetClock", "SetSaveName", "SetBeeper",
      "SetSmoothing", "SetDigitCount", "SetLanguage", "SetDateFormat",
      "SetTimeFormat", "SetNumFormat", "SetAutoHoldEventThreshold",
      "SetRecordingEventThreshold", "SetCustomDbm", "SetDbmRef",
      "SetTempOffset", "Clear", "ResetDevice" }

Emits(call, tag, variant) ==
    /\ call.out.kind = "frame"
    /\ call.out.resp.tag = tag
    /\ call.out.resp.payload.variant = variant

\* C2: with a command outstanding, a buffer that starts with "1\r", "2\r"
\* or "5\r" decodes to SyntaxError, ExecutionError or NoData, exactly those
\* 2 bytes are consumed and every following byte stays; "0\r" with a Set*,
\* Clear or ResetDevice outstanding decodes to Success(None) and consumes
\* exactly 2 bytes.
C2_StatusDigits ==
    (ret.called /\ ret.cmd # NoCmd) =>
        /\ StatusOf(ret) = ONE =>
              /\ Emits(ret, "SyntaxError", "None")
              /\ ret.out.src = Drop(ret.before, 2)
        /\ StatusOf(ret) = TWO =>
              /\ Emits(ret, "ExecutionError", "None")
              /\ ret.out.src = Drop(ret.before, 2)
        /\ StatusOf(ret) = FIVE =>
              /\ Emits(ret, "NoData", "None")
              /\ ret.out.src = Drop(ret.before, 2)
        /\ (StatusOf(ret) = ZERO /\ ret.cmd.name \in SetClearReset) =>
              /\ Emits(ret, "Success", "None")
              /\ ret.out.src = Drop(ret.before, 2)

\* "1\r" followed by more bytes was decoded while a payload command was
\* outstanding, and the following bytes are still buffered
C2_Witness ==
    /\ ret.called
    /\ ret.cmd.name = "GetMeasurementBinary"
    /\ ret.before = << ONE, CR, ZERO, CR >>
    /\ ret.out.resp.tag = "SyntaxError"
    /\ src = << ZERO, CR >>

\* the first CR after the status line of the call's buffer (0: none)
LineEnd(call) == FirstCR(call.before, 3)

\* C3: with an ASCII-payload command outstanding and status 0, decode is
\* incomplete as long as no CR follows the 2 status bytes; once one is
\* present it decodes the bytes up to the first such CR as the payload and
\* consumes exactly 2 + payload length + 1 bytes, leaving every later byte
\* in the buffer.
C3_AsciiPayload ==
    (ret.called /\ ret.cmd.name \in AsciiCommands /\ StatusOf(ret) = ZERO) =>
        IF LineEnd(ret) = 0
        THEN ret.out.kind = "incomplete"
        ELSE /\ ret.out.kind \notin { "incomplete", "panic" }
             /\ ret.out.src = Drop(ret.before, LineEnd(ret))

\* the length computed in place for GetMeasurementBinary, as a probe of
\* the bytes after the status line
LiveProbe(buf) ==
    IF Len(buf) >= BIN_MARKER_LEN + MEA_METADATA_LEN
    THEN LET total == BIN_MARKER_LEN + MEA_METADATA_LEN
                        + LE16(buf, BIN_MARKER_LEN + MEA_METADATA_LEN - 2)
                            * READING_LEN
                        + EOL_LEN
         IN  IF Len(buf) >= total THEN Some(total) ELSE None
    ELSE None

\* the length-probe that matches a binary command
ProbeOf(n, buf) ==
    CASE n = "GetMeasurementBinary" -> LiveProbe(buf)
      [] n = "QuerySavedMeasurement" -> RawSavedMeasurement_can_parse(buf)
      [] n = "QueryMinMaxSessionInfo" ->
            RawSavedMinMaxMeasurement_can_parse(buf)
      [] n = "QueryPeakSessionInfo" ->
            RawSavedMinMaxMeasurement_can_parse(buf)
      [] n = "QueryRecordedSessionInfo" ->
            RawSavedRecordingSessionInfo_can_parse(buf)
      [] n = "QuerySessionRecordReadings" ->
            RawSessionRecordReadings_can_parse(buf)

BinaryCall(call) ==
    call.called /\ call.cmd.name \in BinaryCommands /\ StatusOf(call) = ZERO

CallProbe(call) == ProbeOf(call.cmd.name, Drop(call.before, 2))
CallSpan(call) == Slice(call.before, 3, 2 + CallProbe(call).val)

\* C4: with a binary-payload command outstanding and status 0, decode is
\* incomplete while the matching length-probe returns none, and otherwise
\* parses the probed span and consumes exactly 2 + probed length bytes,
\* never more and never fewer.
C4_BinaryPayload ==
    BinaryCall(ret) =>
        IF ~CallProbe(ret).some
        THEN ret.out.kind = "incomplete"
        ELSE /\ ret.out.kind # "incomplete"
             /\ ret.out.src = Drop(ret.before, 2 + CallProbe(ret).val)
             /\ ret.out.kind = "frame" =>
                   ret.out.resp.payload.value.span = CallSpan(ret)

\* header + count * 30 reading bytes + name + trailing CR
FrameLen(meta, c, nm) ==
    BIN_MARKER_LEN + meta + c * READING_LEN + Len(nm) + EOL_LEN

\* the complete frames of the record kind command n asks for, each with the
\* length its parts add up to
CompleteFrames(n) ==
    IF n = "QuerySessionRecordReadings"
    THEN { [bytes |-> SessionFrame(f, Marker),
            len |-> FrameLen(SAVED_RECORD_READINGS_LEN, 0, << >>)] :
              f \in Fills }
    ELSE IF n = "GetMeasurementBinary"
    THEN { [bytes |-> BinFrame(MetaOf(n), x[1], << >>, x[2], Marker),
            len |-> FrameLen(MetaOf(n), x[1], << >>)] :
              x \in (0..MaxReadings) \X Fills }
    ELSE { [bytes |-> BinFrame(MetaOf(n), x[1], x[3], x[2], Marker),
            len |-> FrameLen(MetaOf(n), x[1], x[3])] :
              x \in (0..MaxReadings) \X Fills \X Names }

\* C5: for every record kind and every complete frame, the length-probe
\* returns none for every proper prefix of the frame and the frame's length
\* (header + count * 30 + name + CR) once all of it is buffered; with bytes
\* beyond the frame buffered too, decode consumes exactly the frame and
\* leaves the rest untouched.
C5_ProbeMonotonic ==
    /\ last_cmd.name \in BinaryCommands =>
          \A fr \in CompleteFrames(last_cmd.name) :
              IsPrefix(fr.bytes, src \o wire) =>
                  LET got == ProbeOf(last_cmd.name, Drop(src, 2))
                  IN  /\ Len(src) < 2 + fr.len => ~got.some
                      /\ Len(src) >= 2 + fr.len =>
                            got.some /\ got.val = fr.len
    /\ (ret.called /\ ret.cmd.name \in BinaryCommands) =>
          \A fr \in CompleteFrames(ret.cmd.name) :
              IsPrefix(fr.bytes, ret.before) =>
                  /\ ret.out.kind = "frame"
                  /\ ret.out.src = Drop(ret.before, 2 + fr.len)

\* a complete recording-session frame with a reading, a name and a header
\* full of CR bytes was buffered together with two more bytes; decode took
\* the frame and left the two bytes
C5_Witness ==
    /\ ret.called
    /\ ret.cmd.name = "QueryRecordedSessionInfo"
    /\ ret.before =
          BinFrame(SAVED_RECORDING_METADATA_LEN, 1, << 65 >>, CR, Marker)
              \o StatusLine(FIVE)
    /\ ret.out.kind = "frame"
    /\ src = StatusLine(FIVE)

\* C6: whenever decode reports incomplete, which it does whenever fewer
\* than 2 bytes are buffered, the buffer is retained byte for byte and the
\* outstanding command is unchanged.
C6_IncompleteRetains ==
    ret.called =>
        /\ Len(ret.before) < 2 => ret.out.kind = "incomplete"
        /\ ret.out.kind = "incomplete" =>
              /\ ret.out.src = ret.before
              /\ src = ret.before
              /\ ret.out.last_cmd = ret.cmd
              /\ last_cmd = ret.cmd

\* decode reported incomplete on a status line with part of a payload
C6_Witness ==
    /\ ret.called
    /\ ret.out.kind = "incomplete"
    /\ ret.cmd.name = "GetClock"
    /\ src = << ZERO, CR, FIVE >>

\* C7 as stated: once decode has emitted a complete frame the codec is
\* back to Idle, no command outstanding.
C7_AsStated ==
    (ret.called /\ ret.out.kind = "frame") => last_cmd = NoCmd

\* C7 (amended): the codec's framing state goes from Idle to
\* AwaitingResponse(command) when a command is encoded and stays
\* AwaitingResponse(command) after decode has emitted a complete frame for
\* it: the recorded command is never cleared, only replaced by the next
\* encode.
C7_FramingState ==
    /\ (last_cmd = NoCmd) <=> (encoded = NoCmd)
    /\ (ret.called /\ ret.out.kind = "frame") => last_cmd = ret.cmd

\* a complete frame was emitted for an encoded command
C7_Witness ==
    /\ ret.called
    /\ ret.out.kind = "frame"
    /\ ret.cmd.name = "Id"
    /\ ret.out.resp.payload.variant = "Id"
    /\ last_cmd.name = "Id"

\* C8: after encode(c) the outstanding command is c, whatever was recorded
\* before, and every status-0 decode up to the next encode dispatches on c.
C8_EncodeRecords ==
    /\ encoded # NoCmd => last_cmd = encoded
    /\ (ret.called /\ StatusOf(ret) = ZERO) => ret.cmd = encoded

\* a second status-0 frame was decoded without an encode in between, still
\* for the encoded command
C8_Witness ==
    /\ ret.called
    /\ StatusOf(ret) = ZERO
    /\ encoded.name = "SetBeeper"
    /\ ret.before = << ZERO, CR >>
    /\ ret.out.kind = "frame"
    /\ ret.out.resp.tag = "Success"

---------------------------------------------------------------------------
(* The session *)

\* C1: at no point are two commands outstanding on the same device: a
\* command is issued only when the response of every earlier command has
\* been consumed, also when the operation that sent the earlier command
\* was abandoned between its send and its read.
C1_OneOutstanding == pending <= 1

Took == pc = "idle" /\ taken = 1 /\ ret.called /\ ret.out.kind = "frame"

Expected(r) == r.tag = "Success" /\ r.payload.variant = Expects(op.name)
Rejection(r) == r.tag \in { "SyntaxError", "ExecutionError" }
Carries(r) ==
    /\ result.kind = "Unexpected"
    /\ result.response.tag = r.tag
    /\ result.response = r

\* C10 as stated: an operation returns its payload only on Success with
\* exactly the variant it expects; every other Response that is not a
\* rejection makes it fail with Unexpected carrying that Response.
C10_AsStated ==
    Took =>
        /\ result.kind = "ok" => Expected(ret.out.resp)
        /\ (~Expected(ret.out.resp) /\ ~Rejection(ret.out.resp)) =>
              Carries(ret.out.resp)

\* C10 (amended): an operation returns a payload only on Success with
\* exactly the variant it expects; every other Response that is not a
\* rejection makes it fail with Unexpected carrying that Response, except
\* that live_measurement answers NoData with Ok(None), no payload, instead
\* of failing.
C10_ExactVariant ==
    Took =>
        LET r == ret.out.resp
            nothing == op.name = "GetMeasurementBinary" /\ r.tag = "NoData"
        IN  /\ (result.kind = "ok" /\ ~nothing) =>
                  Expected(r) /\ result.value = r.payload.value
            /\ nothing => result.kind = "ok" /\ result.value = << >>
            /\ (~Expected(r) /\ ~Rejection(r) /\ ~nothing) => Carries(r)

\* backlight was answered "5\r" and failed with Unexpected(NoData)
C10_Witness ==
    /\ Took
    /\ op.name = "GetBacklightTimeout"
    /\ ret.out.resp.tag = "NoData"
    /\ result.kind = "Unexpected"
    /\ result.response.tag = "NoData"

\* C11: an operation that consumed a SyntaxError response fails with the
\* SyntaxError kind and one that consumed an ExecutionError response fails
\* with the ExecutionError kind; neither kind arises from any other
\* response, nor from an aborted, cancelled or transport-failed operation.
C11_RejectionKinds ==
    /\ Took =>
          /\ ret.out.resp.tag = "SyntaxError" <=> result.kind = "SyntaxError"
          /\ ret.out.resp.tag = "ExecutionError" <=>
                result.kind = "ExecutionError"
    /\ ~Took => result.kind \notin { "SyntaxError", "ExecutionError" }

\* set_backlight was answered "2\r" and failed with ExecutionError
C11_Witness ==
    /\ Took
    /\ op.name = "SetBacklightTimeout"
    /\ ret.before = << TWO, CR >>
    /\ ret.out.resp.tag = "ExecutionError"
    /\ result.kind = "ExecutionError"

\* C12: live_measurement returns success with no measurement when the
\* device answers status 5 (NoData), and success with the decoded
\* measurement when it answers a complete binary measurement frame.
C12_LiveMeasurement ==
    (Took /\ op.name = "GetMeasurementBinary") =>
        LET r == ret.out.resp
        IN  /\ r.tag = "NoData" =>
                  result.kind = "ok" /\ result.value = << >>
            /\ (r.tag = "Success" /\ r.payload.variant = "MeasurementBinary")
                  => /\ result.kind = "ok"
                     /\ result.value = r.payload.value
                     /\ result.value # << >>

\* live_measurement was answered "5\r" and returned Ok(None)
C12_Witness ==
    /\ Took
    /\ op.name = "GetMeasurementBinary"
    /\ ret.before = << FIVE, CR >>
    /\ ret.out.resp.tag = "NoData"
    /\ result.kind = "ok"
    /\ result.value = << >>

\* live_measurement was answered a complete frame and returned it
C12_FrameReturned ==
    /\ Took
    /\ op.name = "GetMeasurementBinary"
    /\ ret.out.resp.tag = "Success"
    /\ result.kind = "ok"
    /\ result.value = ret.out.resp.payload.value

\* the operation has returned without a response, the stream having ended
StreamEnded ==
    /\ pc = "idle"
    /\ taken = 0
    /\ result.kind \notin { "none", "cancelled" }
    /\ peer_closed /\ wire = << >> /\ eof

\* ... with nothing buffered when it ended
EndedEmpty ==
    /\ StreamEnded
    /\ ret.called => ret.out.kind = "incomplete" /\ ret.before = << >>

\* ... with only the beginning of a frame buffered when it ended: decode
\* itself wants more bytes
EndedPartial ==
    /\ StreamEnded
    /\ ret.called
    /\ ret.before # << >>
    /\ Decode(ret.cmd, ret.before, build).kind = "incomplete"

\* C13 as stated: an operation that expects a response when the stream
\* ends fails with Abort, whether nothing or only part of the response
\* frame was buffered.
C13_AsStated == (EndedEmpty \/ EndedPartial) => result.kind = "Abort"

\* C13 (amended): an operation that expects a response when the stream
\* ends fails with Abort if nothing was buffered, and with a transport
\* (I/O) failure if only part of the response frame was buffered.
C13_AbortOnEnd ==
    /\ EndedEmpty => result.kind = "Abort"
    /\ EndedPartial => result.kind = "Io" /\ ret.out.kind = "error"

\* the stream ended with only a status line of a payload frame buffered
C13_Witness ==
    /\ EndedPartial
    /\ ret.before = StatusLine(ZERO)
    /\ result.kind = "Io"

\* the stream ended with nothing buffered and the operation got Abort
C13_EmptyAbort == EndedEmpty /\ ret.called /\ ret.before = << >>

\* the call's buffer held at least the two bytes of a status line and
\* they are not one: no CR in second place, or a first byte other than
\* '0', '1', '2', '5'
Malformed(call) ==
    /\ Len(call.before) >= STATUS_LEN
    /\ \/ call.before[2] # CR
       \/ call.before[1] \notin { ZERO, ONE, TWO, FIVE }

\* C14: with at least two bytes buffered, decode returns a fatal decode
\* error, an I/O error value and no Response, when the second byte is not
\* CR and when the first byte is none of '0', '1', '2', '5'.
C14_MalformedStatus ==
    (ret.called /\ Malformed(ret)) =>
        /\ ret.out.kind = "error"
        /\ ret.out.resp = NoResp
        /\ ~crashed

\* "9\r" was decoded and gave an error
C14_Witness ==
    /\ ret.called
    /\ ret.cmd # NoCmd
    /\ ret.before = StatusLine(NINE)
    /\ ret.out.kind = "error"

\* '0' followed by a byte other than CR was decoded and gave an error
C14_NoCR ==
    /\ ret.called
    /\ ret.before = << ZERO, 65 >>
    /\ ret.out.kind = "error"

\* C17: for every buffer and every outstanding command, decode ends in
\* exactly one of incomplete, a Response or an error value; it never
\* aborts the caller (panic, failed assertion, unimplemented branch).
C17_NeverAborts ==
    (ret.called /\ ret.cmd # NoCmd) =>
        /\ ret.out.kind \in { "incomplete", "frame", "error" }
        /\ ret.out.kind = "frame" <=> ret.out.resp # NoResp
        /\ ~crashed

\* the entries of a QueryMap payload line, and whether the count and every
\* code are numbers
MapLine(call) == Split(get_payload(call.before).val)
MapLineNumbers(call) ==
    /\ Utf8Valid(get_payload(call.before).val)
    /\ ParseInt(MapLine(call)[1], FALSE, 0, WIDE_MAX).ok
    /\ \A i \in 1..Len(MapPairs(MapLine(call))) :
          ParseInt(MapPairs(MapLine(call))[i].id, FALSE, 0, U16_MAX).ok

\* C18: a QueryMap payload <count>,<code>,<name>,... is accepted only if
\* the count equals the number of code/name pairs that follow: a payload
\* whose count disagrees is rejected with no Response, and a payload whose
\* count agrees is accepted as the map of those pairs.
C18_CountConsistency ==
    (/\ ret.called
     /\ ret.cmd.name = "QueryMap"
     /\ StatusOf(ret) = ZERO
     /\ LineEnd(ret) # 0
     /\ MapLineNumbers(ret)) =>
        LET pairs == MapPairs(MapLine(ret))
            c == ParseInt(MapLine(ret)[1], FALSE, 0, WIDE_MAX).val
            code(i) == ParseInt(pairs[i].id, FALSE, 0, U16_MAX).val
            map == ret.out.resp.payload.value
        IN  IF c = Len(pairs)
            THEN /\ ret.out.kind = "frame"
                 /\ ret.out.resp.tag = "Success"
                 /\ ret.out.resp.payload.variant = "Map"
                 /\ DOMAIN map = { code(i) : i \in 1..Len(pairs) }
                 /\ Cardinality(DOMAIN map) = c
            ELSE /\ ret.out.kind = "error"
                 /\ ret.out.resp = NoResp

\* QueryMap was answered "1,0,A" and the map { 0 -> "A" } was returned
C18_Accepted ==
    /\ ret.called
    /\ ret.cmd.name = "QueryMap"
    /\ ret.before = AsciiFrame(<< 49, 44, 48, 44, 65 >>)
    /\ ret.out.kind = "frame"
    /\ ret.out.resp.payload.variant = "Map"
    /\ DOMAIN ret.out.resp.payload.value = { 0 }

\* decode was called with Id outstanding on a complete status-0 frame
IdCall ==
    /\ ret.called
    /\ ret.cmd.name = "Id"
    /\ StatusOf(ret) = ZERO
    /\ LineEnd(ret) # 0

\* the comma-separated fields of the call's payload line
IdFields(call) == Split(get_payload(call.before).val)

\* Success(Id { model, firmware, serial }) of the three fields, in order
IdOf(call) ==
    /\ call.out.kind = "frame"
    /\ call.out.resp.tag = "Success"
    /\ call.out.resp.payload.variant = "Id"
    /\ call.out.resp.payload.value.model = IdFields(call)[1]
    /\ call.out.resp.payload.value.firmware = IdFields(call)[2]
    /\ call.out.resp.payload.value.serial = IdFields(call)[3]

IdError(call) == call.out.kind = "error" /\ call.out.resp = NoResp

\* C19 as stated: with Id outstanding, a status-0 frame whose payload has
\* exactly three comma-separated fields yields Success(Id) of the fields
\* in order, and any other number of fields yields a decode error and no
\* Response.
C19_AsStated ==
    IdCall =>
        IF Len(IdFields(ret)) = 3 THEN IdOf(ret) ELSE IdError(ret)

\* C19 (amended): with Id outstanding, a status-0 frame whose payload is
\* valid UTF-8 and has exactly three comma-separated fields yields
\* Success(Id) of the fields in order; any other number of fields, or a
\* payload that is not valid UTF-8, yields a decode error and no Response.
C19_IdentFields ==
    IdCall =>
        IF /\ Len(IdFields(ret)) = 3
           /\ Utf8Valid(get_payload(ret.before).val)
        THEN IdOf(ret)
        ELSE IdError(ret)

\* "0\rA,B,C\r" was decoded to Id { model: "A", firmware: "B",
\* serial: "C" }
C19_Witness ==
    /\ IdCall
    /\ ret.before = AsciiFrame(<< 65, 44, 66, 44, 67 >>)
    /\ IdOf(ret)
    /\ ret.out.resp.payload.value.model = << 65 >>
    /\ ret.out.resp.payload.value.serial = << 67 >>
    /\ src = << >>

\* a payload of four fields was decoded with Id outstanding and refused
C19_FourFields ==
    /\ IdCall
    /\ Len(IdFields(ret)) = 4
    /\ IdError(ret)

\* C16: cancelling an operation after its command was sent and before its
\* response was consumed is equivalent to dropping the connection: no
\* later operation on the Device returns a successful result, which would
\* be built from the response bytes of the cancelled command.
C16_CancelDrops ==
    ("abandoned" \in seen /\ pc = "idle") => result.kind # "ok"

\* C15: a transport failure is fatal to the connection: once an operation
\* on a Device has failed with a transport failure, no later operation on
\* that Device returns a successful result.
C15_TransportFatal ==
    ("transport" \in seen /\ pc = "idle") => result.kind # "ok"

\* the j-th frame of the buffer is a complete response frame of the
\* operation it was prepared for: alone, it decodes to a Response and
\* leaves nothing
OwnFrame(j) ==
    LET d == Decode(Cmd(script[j].name, << >>), script[j].bytes, build)
    IN  d.kind = "frame" /\ d.src = << >>

\* the Response the j-th frame decodes to when it is alone in the buffer
OwnResponse(j) ==
    Decode(Cmd(script[j].name, << >>), script[j].bytes, build).resp

\* the operations called so far have returned and each had its own frame
\* prepared in the buffer
BackToBack ==
    /\ pc = "idle"
    /\ Called \in 1..Len(script)
    /\ \A j \in 1..Called : OwnFrame(j)

\* C20: when the inbound stream holds the complete response frames of k
\* successive operations back to back, in whatever chunks they arrive,
\* the operations return their responses in arrival order, each consumes
\* exactly its own frame, and nothing is left buffered after the last.
C20_FramesInOrder ==
    BackToBack =>
        /\ Took
        /\ op.name = script[Called].name
        /\ ret.out.resp = OwnResponse(Called)
        /\ result = Device_match(op, OwnResponse(Called)).result
        /\ src \o wire = BytesFrom(script, Called + 1)
        /\ Called = Len(script) => src = << >> /\ wire = << >>

\* two frames were prepared, the first a QueryMap frame; the second
\* query_map was decoded from exactly the second frame and has returned
\* its map, with nothing left
C20_Witness ==
    /\ BackToBack
    /\ Called = 2
    /\ Len(script) = 2
    /\ script[1].name = "QueryMap"
    /\ script[1].bytes = AsciiFrame(<< 49, 44, 48, 44, 65 >>)
    /\ op.name = "QueryMap"
    /\ ret.before = script[2].bytes
    /\ ~eof
    /\ result.kind = "ok"
    /\ src = << >>
    /\ wire = << >>

\* a bulk fetch has been called
Fetching == bulk.state # "off"

\* the index the j-th entry of the returned list was answered for: the
\* device put it into the record's name, or into every byte of a readings
\* record
IndexOf(m) ==
    IF bulk.kind = "readings" THEN m.span[BIN_MARKER_LEN + 1]
    ELSE m.name[1] - 65

\* C21: each bulk fetch of saved records first queries MemoryStat and
\* then issues exactly one indexed query per item, for the indices
\* 0..count-1 in increasing order, each sent only after the previous
\* item's response was received; the list returned has count entries in
\* index order.  The readings fetch does the same with the count the
\* caller supplied.
C21_BulkFetch ==
    Fetching =>
        /\ sent <= 1
        /\ pc = "send" => pending = 0
        /\ (bulk.state = "stat" /\ pc # "idle") =>
              /\ bulk.kind \in SavedKinds
              /\ op = Cmd("GetMemoryStat", << >>)
              /\ bulk.v = << >>
        /\ (bulk.state = "items" /\ pc # "idle") =>
              /\ op = Query(bulk.kind, Len(bulk.v))
              /\ Len(bulk.v) < bulk.n
        /\ (bulk.state # "stat" /\ bulk.kind = "measurements") =>
              bulk.n = bulk.stats.measurement
        /\ (bulk.state # "stat" /\ bulk.kind = "minmax") =>
              bulk.n = bulk.stats.min_max
        /\ (bulk.state # "stat" /\ bulk.kind = "peak") =>
              bulk.n = bulk.stats.peak
        /\ (bulk.state # "stat" /\ bulk.kind = "recordings") =>
              bulk.n = bulk.stats.recordings
        /\ \A j \in 1..Len(bulk.v) : IndexOf(bulk.v[j]) = j - 1
        /\ (bulk.state = "done" /\ bulk.result.kind = "ok") =>
              /\ Len(bulk.v) = bulk.n
              /\ bulk.result.value = bulk.v

\* saved_measurements_all has returned the records of indices 0 and 1,
\* in that order, for a device that reported more recordings or fewer
\* than measurements
C21_Witness ==
    /\ bulk.state = "done"
    /\ bulk.kind = "measurements"
    /\ bulk.result.kind = "ok"
    /\ Len(bulk.v) >= 2
    /\ bulk.v[1].name = << 65 >>
    /\ bulk.v[2].name = << 66 >>
    /\ bulk.stats.recordings # bulk.stats.measurement
    /\ pending = 0

\* the progress calls made so far are (0,n), (1,n), ... one for each item
\* received
ProgressCalls ==
    bulk.calls = [j \in 1..Len(bulk.v) |-> << j - 1, bulk.n >>]

C22_FailedItem ==
    /\ bulk.state = "done"
    /\ bulk.kind = "readings"
    /\ bulk.result.kind = "SyntaxError"
    /\ bulk.calls = << << 0, bulk.n >> >>

\* C23: every Command, for every value of its parameters, encodes to a
\* single ASCII command line terminated by "\r": the encoded bytes hold
\* exactly one "\r", it is the last byte, and every byte is ASCII.
C23_SingleAsciiLine ==
    conv.fn = "encode" =>
        /\ Len(conv.out) >= 1
        /\ conv.out[Len(conv.out)] = CR
        /\ \A i \in 1..(Len(conv.out) - 1) : conv.out[i] # CR
        /\ \A i \in 1..Len(conv.out) : conv.out[i] < 128


\* C24: every floating field of every record is read with the one
\* byte-swapped-double primitive, the live Measurement's timestamp included.
C24_UniformDoubles ==
    conv.fn = "floats" =>
        /\ conv.out.measurement.range_max = read_double(conv.arg)
        /\ conv.out.measurement.ts = read_double(conv.arg)
        /\ conv.out.reading.value = read_double(conv.arg)
        /\ conv.out.reading.ts = read_double(conv.arg)


\* the code is absent from the field's value map; for the bit set of modes,
\* the code has a bit that no entry of the map contains
Missing(field, code) ==
    IF field = "mode"
    THEN \E f \in { 1, 2, 4, 8, 16, 32, 64, 128, 256, 512 } :
            /\ BitAnd(code, f) = f
            /\ \A g \in DOMAIN ValueMaps.mode : BitAnd(g, f) = 0
    ELSE code \notin DOMAIN ValueMaps[field]

\* C25: domain translation aborts whenever a numeric code is absent from its
\* value map; for no field does a missing code translate to a domain value.
C25_MissingCodeAborts ==
    (conv.fn = "translate" /\ Missing(conv.arg[1], conv.arg[2]))
        => conv.out.kind = "panic"


\* a double that is exactly zero (of either sign); one that is infinite or NaN
IsZero(f) == Exponent(f) = 0 /\ FractionZero(f)
NonFinite(f) == Exponent(f) = 2047

\* C26: translating a live Measurement maps a raw timestamp that is exactly
\* zero or non-finite to an absent timestamp and every other raw timestamp to
\* a present one.
C26_ZeroIsAbsent ==
    conv.fn = "timestamp" =>
        (conv.out.kind = "none" <=> (IsZero(conv.arg) \/ NonFinite(conv.arg)))


\* C27: every Reading has decimals >= 0 whenever its state is normal, so no
\* Reading reaches the formatting code in a state where its assertion fails.
C27_DecimalsNotNegative ==
    (conv.fn = "reading" /\ conv.out.kind = "ok") =>
        /\ conv.out.state = "NORMAL" => conv.out.decimals >= 0
        /\ conv.fmt # "panic"


\* C28: for every Device operation the payload variant the codec builds for
\* its command is the variant the operation matches: when the codec returns
\* Success the operation succeeds, and no Unexpected error carries a Success.
C28_VariantsAgree ==
    conv.fn = "operation" =>
        /\ conv.resp.tag = "Success" => conv.out.kind = "ok"
        /\ conv.out.kind = "Unexpected" => conv.out.response.tag # "Success"


\* decode was called on a buffer that begins with the status line "0\r"
ExaminedOk ==
    /\ ret.called
    /\ Len(ret.before) >= STATUS_LEN
    /\ ret.before[1] = ZERO
    /\ ret.before[2] = CR

\* C29: with only the operations of Device, decode examines a frame of
\* status 0 only while a command is recorded, so it never stops with
\* "No command called".
C29_CommandRecorded ==
    ExaminedOk =>
        /\ ret.cmd # NoCmd
        /\ ~(ret.out.kind = "panic" /\ ret.out.why = "No command called")

\* decode examined a frame of status 0 and returned its Success response
C29_Witness ==
    /\ ExaminedOk
    /\ ret.out.kind = "frame"
    /\ ret.out.resp.tag = "Success"


\* C30: whenever decode returns an error, the inbound buffer it leaves is
\* the one it was given: no byte of the offending frame is consumed.
C30_ErrorLeavesBuffer ==
    (ret.called /\ ret.out.kind = "error") => ret.out.src = ret.before


\* the query the fetch made last has failed and the fetch has ended
FetchFailed ==
    /\ bulk.state = "done"
    /\ result.kind \notin { "ok", "none" }

\* C31: when the MemoryStat query or an indexed query of a bulk fetch
\* fails, the fetch returns that failure, returns none of the items already
\* fetched, and sends no further query: the failed query stays its last.
C31_FailFast ==
    FetchFailed =>
        /\ bulk.result = result
        /\ bulk.result.value = << >>
        /\ op = bulk.cmd
        /\ pc = "idle"
        /\ ops_left = 0
        /\ Len(bulk.v) < bulk.n \/ bulk.n = 0

\* saved_measurements_all had fetched item 0 when the query of item 1 was
\* answered with a syntax error
C31_Witness ==
    /\ FetchFailed
    /\ bulk.kind = "measurements"
    /\ Len(bulk.v) = 1
    /\ op = Query("measurements", 1)
    /\ bulk.result.kind = "SyntaxError"

\* memory_statistics itself failed
C31_StatFailed ==
    /\ FetchFailed
    /\ op = Cmd("GetMemoryStat", << >>)
    /\ bulk.v = << >>


\* all_memory is running or has returned; it has returned Ok(list)
InAllMemory == Fetching /\ bulk.mem.on
AllMemoryOk == InAllMemory /\ bulk.mem.result.kind = "ok"

\* the queries of one fetch that returned k records: MemoryStat, then the
\* indexed queries 0..k-1 of its kind
QueriesOf(kind, k) ==
    << Cmd("GetMemoryStat", << >>) >>
        \o [i \in 1..k |-> Query(kind, i - 1)]

\* the entries of one group: the Memory variant of its kind, index order
GroupOf(g, memory) ==
    \A j \in 1..Len(g) :
        /\ g[j].memory = memory
        /\ g[j].record.name = << 65 + j - 1 >>

\* C32: all_memory fetches measurements, min/max, peak, recordings in that
\* order, querying MemoryStat once before each kind; on success it has sent
\* 4 MemoryStat queries plus one indexed query per item, and the list holds
\* the measurements, then min/max, then peak, then recordings, each group
\* in index order.
C32_AllMemory ==
    /\ InAllMemory =>
          /\ Len(bulk.log) >= 1 => bulk.log[1] = Cmd("GetMemoryStat", << >>)
          /\ bulk.mem.phase = 1 => bulk.kind = "measurements"
          /\ bulk.mem.phase = 2 => bulk.kind = "minmax"
          /\ bulk.mem.phase = 3 => bulk.kind = "peak"
          /\ bulk.mem.phase = 4 => bulk.kind = "recordings"
    /\ AllMemoryOk =>
          LET g == bulk.mem.groups
              list == bulk.mem.result.value
          IN  /\ Len(g) = 4
              /\ bulk.log = QueriesOf("measurements", Len(g[1]))
                              \o QueriesOf("minmax", Len(g[2]))
                              \o QueriesOf("peak", Len(g[3]))
                              \o QueriesOf("recordings", Len(g[4]))
              /\ Len(bulk.log) = 4 + Len(list)
              /\ list = g[1] \o g[2] \o g[3] \o g[4]
              /\ GroupOf(g[1], "Measurement")
              /\ GroupOf(g[2], "MinMaxMeasurement")
              /\ GroupOf(g[3], "PeakMeasurement")
              /\ GroupOf(g[4], "Recording")

\* all_memory has returned a list with records of all four kinds, two of
\* them peak records
C32_Witness ==
    /\ AllMemoryOk
    /\ \A p \in 1..4 : Len(bulk.mem.groups[p]) >= 1
    /\ Len(bulk.mem.groups[3]) = 2
    /\ Len(bulk.mem.result.value) >= 5


\* C33: for every operation other than live_measurement a NoData response
\* makes the operation fail with the unexpected-response kind carrying
\* NoData; it is never a success, a SyntaxError or an ExecutionError.
C33_NoDataUnexpected ==
    (Took /\ ret.out.resp.tag = "NoData"
          /\ op.name # "GetMeasurementBinary") =>
        /\ result.kind = "Unexpected"
        /\ result.response.tag = "NoData"
        /\ result.value = << >>

\* saved_measurement was answered "5\r"
C33_Witness ==
    /\ Took
    /\ op.name = "QuerySavedMeasurement"
    /\ ret.before = << FIVE, CR >>
    /\ ret.out.resp.tag = "NoData"
    /\ result.kind = "Unexpected"


\* C34: for every value v of Language, DateFormat, TimeFormat,
\* NumericFormat, DigitCount and DezibelReference, the token that encoding
\* Set(v) writes is decoded by the matching Get decoder back to v, without
\* error or abort.
C34_TokenRoundTrip ==
    conv.fn = "roundtrip" =>
        /\ conv.out.kind = "frame"
        /\ conv.out.resp.tag = "Success"
        /\ conv.out.resp.payload.value = conv.arg.value


\* decode on the whole stream: the buffer it was given and the bytes that
\* had not arrived yet
WholeStream == Decode(ret.cmd, ret.before \o wire, build)

\* C35: decoding is independent of chunking.  A call that wants more bytes
\* leaves the buffer as it was; a call that returns a response, an error or
\* aborts on the bytes arrived so far returns what decode returns on the
\* whole stream and consumes as many bytes.
C35_ChunkIndependent ==
    ret.called =>
        /\ ret.out.kind = "incomplete" => ret.out.src = ret.before
        /\ ret.out.kind # "incomplete" =>
              /\ WholeStream.kind = ret.out.kind
              /\ WholeStream.resp = ret.out.resp
              /\ WholeStream.why = ret.out.why
              /\ WholeStream.src = ret.out.src \o wire
              /\ Len(ret.before \o wire) - Len(WholeStream.src)
                    = Len(ret.before) - Len(ret.out.src)

\* decode returned the response of a saved measurement while bytes sent
\* after it were still to arrive
C35_Witness ==
    /\ ret.called
    /\ ret.cmd.name = "QuerySavedMeasurement"
    /\ ret.out.kind = "frame"
    /\ ret.out.resp.tag = "Success"
    /\ wire # << >>
    /\ src = << >>

\* decode returned the response of an identification line in the same way
C35_AsciiSplit ==
    /\ ret.called
    /\ ret.cmd.name = "Id"
    /\ ret.out.kind = "frame"
    /\ ret.out.resp.tag = "Success"
    /\ wire # << >>

---------------------------------------------------------------------------
(* Probe and parser of one record kind *)

\* the header length each parser asserts on
HeaderLen(n) ==
    IF n = "QuerySessionRecordReadings" THEN SAVED_RECORDING_METADATA_LEN
    ELSE MetaOf(n)

\* the two bytes that end the header of the probed span
HeaderCount(call) ==
    LE16(CallSpan(call), BIN_MARKER_LEN + HeaderLen(call.cmd.name) - 2)

Probed(call) == BinaryCall(call) /\ CallProbe(call).some

\* the parse ended in a record or in the missing-marker error, without a
\* failed assertion and without running out of bytes
ParsedOrNoMarker(call) ==
    /\ call.out.kind \in { "frame", "error" }
    /\ call.out.kind = "error" <=> ~HasMarker(CallSpan(call))
    /\ call.out.kind = "error" => call.out.why = "no #0 marker"

\* the record holds the count of the header and that many readings
CountAgrees(call) ==
    call.out.kind = "frame" =>
        /\ call.out.resp.payload.value.cnt = HeaderCount(call)
        /\ call.out.resp.payload.value.readings = HeaderCount(call)

\* C36 as stated: for every record kind, whenever the length-probe returns
\* Some(n), parsing the first n bytes reads the reading count stored in the
\* last two bytes of the metadata header, yields that many readings, never
\* runs out of bytes, never trips an assertion, and fails only on a missing
\* #0 marker.
C36_ProbeParseAgree ==
    Probed(ret) => ParsedOrNoMarker(ret) /\ CountAgrees(ret)

\* C36: for every record kind whose header ends in a reading count (live,
\* saved, min/max, peak and recording-info records), whenever the
\* length-probe returns Some(n), parsing the first n bytes reads that count
\* and yields that many readings; a session reading record stores no count
\* and yields its three span readings and one fixed reading; no kind runs
\* out of bytes or trips an assertion, and the only failure is a missing #0
\* marker.
C36_CountedKindsAgree ==
    Probed(ret) =>
        /\ ParsedOrNoMarker(ret)
        /\ IF ret.cmd.name = "QuerySessionRecordReadings"
           THEN ret.out.kind = "frame" =>
                   /\ ret.out.resp.payload.value.cnt = 3
                   /\ ret.out.resp.payload.value.readings = 3 + 1
           ELSE CountAgrees(ret)

\* a saved measurement with one reading and the name "A" was probed and
\* parsed: the record holds one reading
C36_Witness ==
    /\ Probed(ret)
    /\ ret.cmd.name = "QuerySavedMeasurement"
    /\ CallSpan(ret) = Drop(BinFrame(SAVED_MEA_METADATA_LEN, 1, << 65 >>,
                                     CR, Marker), 2)
    /\ ret.out.kind = "frame"
    /\ ret.out.resp.payload.value.readings = 1

\* a session reading record was probed and parsed
C36_SessionParsed ==
    /\ Probed(ret)
    /\ ret.cmd.name = "QuerySessionRecordReadings"
    /\ ret.out.kind = "frame"

---------------------------------------------------------------------------
(* Free-text parameters on the wire *)

FreeTextCommands ==
    { "SetOperator", "SetCompany", "SetSite", "SetContact", "SetSaveName" }

\* the free-text parameter of a Set command: its last parameter
TextOf(item) == item.arg[Len(item.arg)]

\* line ends in a comma, the text between two single quotes and "\r"
EndsQuoted(line, t) ==
    LET tail == << COMMA >> \o enclose_string(t) \o << CR >>
    IN  /\ Len(line) >= Len(tail)
        /\ Drop(line, Len(line) - Len(tail)) = tail

\* C37: every Set command that carries a free-text string (SetOperator,
\* SetCompany, SetSite, SetContact, SetSaveName) writes that string enclosed
\* in single quotes.
C37_TextQuoted ==
    (conv.fn = "encode" /\ conv.arg.name \in FreeTextCommands) =>
        EndsQuoted(conv.out, TextOf(conv.arg))

\* the four commands other than SetContact write the text quoted
C37_OthersQuoted ==
    (/\ conv.fn = "encode"
     /\ conv.arg.name \in FreeTextCommands \ { "SetContact" }) =>
        EndsQuoted(conv.out, TextOf(conv.arg))

\* SetSite("A B") has been encoded
C37_SiteEncoded ==
    /\ conv.fn = "encode"
    /\ conv.arg = Cmd("SetSite", << << 65, 32, 66 >> >>)

---------------------------------------------------------------------------
(* Owner-info answers *)

\* line without its first and its last character; nothing is left of a
\* line of fewer than two characters
Inner(line) == SkipTake(line, 1, CharsFrom(line, 1) - 2)

\* C38: for GetOperator, GetCompany, GetSite and GetContact, the decoded
\* string is the payload line with exactly its first and its last character
\* removed, for every payload line; in particular stripping the line
\* produced by enclosing a string s in single quotes gives back s.
C38_StripBothEnds ==
    conv.fn = "strip" =>
        /\ conv.out.kind = "frame"
        /\ conv.out.resp.payload.value = Inner(conv.arg.line)

\* on lines of two or more characters, all of one byte, the decoded string
\* is the line without its first and last character
C38_AsciiStripped ==
    (/\ conv.fn = "strip"
     /\ Len(conv.arg.line) >= 2
     /\ \A i \in 1..Len(conv.arg.line) : conv.arg.line[i] < 128) =>
        /\ conv.out.kind = "frame"
        /\ conv.out.resp.payload.value = Inner(conv.arg.line)

\* the quoted "\u{fc}" was decoded as the contact: the closing quote is kept
C38_QuoteKept ==
    /\ conv.fn = "strip"
    /\ conv.arg.cmd.name = "GetContact"
    /\ conv.arg.line = enclose_string(<< 195, 188 >>)
    /\ conv.out.kind = "frame"
    /\ conv.out.resp.payload.value = << 195, 188, QUOTE >>

\* the one-character line A was decoded in a build with overflow checks
C38_ShortLinePanics ==
    /\ conv.fn = "strip"
    /\ conv.arg.line = << 65 >>
    /\ conv.arg.build = "debug"
    /\ conv.out.kind = "panic"

====
